---------------------------- MODULE Spec2Model ----------------------------
(***************************************************************************)
(* A model of the frogjump player: the physics tick of player.rs with its  *)
(* landing-surface selection (landing_surface.rs, math.rs) and the jump    *)
(* handler (jump_handler.rs).                                              *)
(*                                                                         *)
(* Numbers.  Lengths are integers in tenths of a Godot unit (pixel), so    *)
(* the source's 1.0 is 10 and its squared distance 1.0 is 100.  A unit     *)
(* vector (a normal, a direction) is kept as its primitive integer         *)
(* direction d, standing for d/|d|; every comparison the source makes on   *)
(* a unit vector is made exactly, on squares.  The polygons of the model   *)
(* are axis-aligned, so the unit vectors that are scaled to a position are *)
(* exact; the engine's raw collision normal ranges over slanted            *)
(* directions too.                                                         *)
(***************************************************************************)
EXTENDS Integers, Sequences, FiniteSets, TLC

(***************************************************************************)
(* Option<T>: None is the empty sequence, Some(v) the one-element one.     *)
(***************************************************************************)
None == <<>>
Some(v) == <<v>>
IsSome(o) == o # <<>>
Get(o) == o[1]

(***************************************************************************)
(* Vector2                                                                 *)
(***************************************************************************)
Abs(x) == IF x < 0 THEN -x ELSE x
Sign(x) == IF x < 0 THEN -1 ELSE IF x > 0 THEN 1 ELSE 0
Min(x, y) == IF x < y THEN x ELSE y

RECURSIVE Gcd(_, _)
Gcd(x, y) == IF y = 0 THEN x ELSE Gcd(y, x % y)

\* floor(sqrt(x)) for x >= 0, by bisection
RECURSIVE SqrtIter(_, _, _)
SqrtIter(x, lo, hi) ==
    IF lo = hi THEN lo
    ELSE LET mid == (lo + hi + 1) \div 2
         IN  IF mid * mid <= x THEN SqrtIter(x, mid, hi)
             ELSE SqrtIter(x, lo, mid - 1)
ISqrt(x) == SqrtIter(x, 0, Min(x, 46340))

ZERO == <<0, 0>>
Add(u, v) == <<u[1] + v[1], u[2] + v[2]>>
Sub(u, v) == <<u[1] - v[1], u[2] - v[2]>>
Neg(v) == <<-v[1], -v[2]>>
Scale(k, v) == <<k * v[1], k * v[2]>>
Dot(u, v) == u[1] * v[1] + u[2] * v[2]
LenSq(v) == Dot(v, v)
DistSq(u, v) == LenSq(Sub(u, v))
\* Division of a vector by a positive integer, each component rounded to the
\* grid toward zero.
QuoT(x, k) == Sign(x) * (Abs(x) \div k)
DivV(v, k) == <<QuoT(v[1], k), QuoT(v[2], k)>>

\* Vector2::orthogonal
Orthogonal(v) == <<v[2], -v[1]>>

\* Vector2::try_normalized: None for the zero vector, else the unit vector,
\* kept as the primitive integer direction.
TryNormalized(v) ==
    IF v = ZERO THEN None
    ELSE Some(DivV(v, Gcd(Abs(v[1]), Abs(v[2]))))

\* Vector2::project, up to the positive factor 1/|onto|^2, which the
\* normalisation that follows it in math::normal removes.
Project(v, onto) == Scale(Sign(Dot(v, onto)), onto)

\* Vector2::length, rounded down to the grid; exact for an axis-aligned
\* vector.
ILen(v) ==
    IF v[1] = 0 THEN Abs(v[2])
    ELSE IF v[2] = 0 THEN Abs(v[1])
    ELSE ISqrt(LenSq(v))

\* 100 |d| for a direction d, rounded down; exact for an axis-aligned one.
ILen100(d) ==
    IF d[1] = 0 \/ d[2] = 0 THEN 100 * (Abs(d[1]) + Abs(d[2]))
    ELSE ISqrt(10000 * LenSq(d))

\* The unit vector d/|d| scaled by h: a displacement on the grid.
Along(d, h) == DivV(Scale(100 * h, d), ILen100(d))

(***************************************************************************)
(* math.rs                                                                 *)
(***************************************************************************)
\* math::normal: the unit vector orthogonal to a-b that opposes the motion.
normal(a, b, player_motion) ==
    LET ortho == Orthogonal(Sub(b, a))
    IN  TryNormalized(Project(Neg(player_motion), ortho))

squared(n) == n * n


(***************************************************************************)
(* The grid: the source's 1.0 (a unit normal's length, the squared         *)
(* distances "< 1.0") and the fractions it multiplies by.                  *)
(***************************************************************************)
ONE == 10
\* WIDTH_MODIFIER = 0.7 = WIDTH_MODIFIER_NUM / ONE
WIDTH_MODIFIER_NUM == 7
\* LandingSurface::hit_by, TOLERANCE = 0.2
TOLERANCE == 2
\* find_shimmy_dest_internal, -0.95 = -OVERHANG_NUM / OVERHANG_DEN
OVERHANG_NUM == 19
OVERHANG_DEN == 20

(***************************************************************************)
(* Polygons: sequences of points, cyclic.                                  *)
(***************************************************************************)
next_point(points, i) == IF i = Len(points) THEN 1 ELSE i + 1
prior_point(points, i) == IF i = 1 THEN Len(points) ELSE i - 1

\* PackedVector2Array::find: the first index holding the point, if any.
Find(points, p) ==
    IF \E i \in 1..Len(points) : points[i] = p
    THEN Some(CHOOSE i \in 1..Len(points) :
                 points[i] = p /\ \A j \in 1..(i - 1) : points[j] # p)
    ELSE None

\* Geometry2D::is_point_in_polygon, by crossing number.  The point is given
\* doubled (q2 = 2q), which keeps an edge's midpoint on the grid.
IsPointInPolygon(q2, polygon) ==
    LET P(i) == Scale(2, polygon[i])
        Crosses(i) ==
            LET pi == P(i)
                pj == P(next_point(polygon, i))
                dy == pj[2] - pi[2]
                dx == pj[1] - pi[1]
                lhs == (q2[1] - pi[1]) * dy
                rhs == (q2[2] - pi[2]) * dx
            IN  /\ (pi[2] > q2[2]) # (pj[2] > q2[2])
                /\ IF dy > 0 THEN lhs < rhs ELSE lhs > rhs
    IN  Cardinality({i \in 1..Len(polygon) : Crosses(i)}) % 2 = 1

(***************************************************************************)
(* landing_surface.rs                                                      *)
(***************************************************************************)
LandingSurface(a, b, n) == [a |-> a, b |-> b, normal |-> n]

\* LandingSurface::new
NewSurface(a, b, player_motion) ==
    LET n == normal(a, b, player_motion)
    IN  IF IsSome(n) THEN Some(LandingSurface(a, b, Get(n))) ELSE None

length_squared(s) == LenSq(Sub(s.a, s.b))

\* A correction that turns every normal around.
flip_normal(s, polygon) == LandingSurface(s.a, s.b, Neg(s.normal))

\* A correction that does not look at the opposite side.
correct_normal_one_sided(s, polygon) ==
    IF IsPointInPolygon(Add(Add(s.a, s.b), Scale(2, Along(s.normal, ONE))),
                        polygon)
    THEN LandingSurface(s.a, s.b, Neg(s.normal))
    ELSE s

\* LandingSurface::correct_normal
correct_normal(s, polygon) ==
    LET step == Along(s.normal, ONE)
        test_point == Add(Add(s.a, s.b), Scale(2, step))
        test_point2 == Add(test_point, Scale(-4, step))
    IN  IF IsPointInPolygon(test_point, polygon)
        THEN IF IsPointInPolygon(test_point2, polygon)
             THEN s
             ELSE LandingSurface(s.a, s.b, Neg(s.normal))
        ELSE s

\* LandingSurface::find_surface
find_surface(polygon, i, i2) ==
    LET a == polygon[i]
        b == polygon[i2]
        n == TryNormalized(Orthogonal(Sub(a, b)))
    IN  IF IsSome(n)
        THEN Some(correct_normal(LandingSurface(a, b, Get(n)), polygon))
        ELSE None

\* |ab - (ac + bc)| < TOLERANCE, decided without square roots: ac + bc <
\* ab + t says that c lies inside the ellipse with foci a, b and major axis
\* ab + t, that is X^2 t(2L+t) + Y^2 (L+t)^2 < (L+t)^2 t(2L+t) for the
\* doubled coordinates (X, Y) of c along and across the edge, from its
\* midpoint, and L = ab.
BetweenApprox(a, b, c) ==
    LET e == Get(TryNormalized(Sub(b, a)))
        L == ILen(Sub(b, a))
        r == Sub(Scale(2, c), Add(a, b))
        X == Dot(r, e) \div ILen(e)
        Y == Dot(r, Orthogonal(e)) \div ILen(e)
        t == TOLERANCE
    IN  IF a = b
        THEN 2 * ISqrt(DistSq(a, c)) < t
        ELSE X * X * t * (2 * L + t) + Y * Y * (L + t) * (L + t)
               < (L + t) * (L + t) * t * (2 * L + t)

\* LandingSurface::hit_by
hit_by(s, collision_position, collision_normal) ==
    LET n == s.normal
        \* distance = n.(p - a), times |n|
        distance == Dot(n, Sub(collision_position, s.a))
        dot_product == Dot(n, collision_normal)
    IN  /\ distance * distance < TOLERANCE * TOLERANCE * LenSq(n)
        \* 1 - dot < 0.2
        /\ dot_product > 0
        /\ ONE * ONE * dot_product * dot_product
             > (ONE - TOLERANCE) * (ONE - TOLERANCE)
                 * LenSq(n) * LenSq(collision_normal)
        /\ BetweenApprox(s.a, s.b, collision_position)

(***************************************************************************)
(* player.rs: surface selection.  The functions of Player read the         *)
(* player's width and global position; here they are parameters.           *)
(***************************************************************************)
\* Player::can_land_on_surface: length_squared > squared(width * 0.7)
can_land_on_surface(width, surface) ==
    ONE * ONE * length_squared(surface)
      > squared(width * WIDTH_MODIFIER_NUM)

\* Player::pick_adjacent_side: a LandingSurface, or None where the source's
\* expect("surface should have a normal!") panics.
pick_adjacent_side(points, index, next_index, player_motion) ==
    NewSurface(points[index], points[next_index], player_motion)

\* Vector2::is_zero_approx: below 1e-5, which is zero on the grid.
is_zero_approx(v) == v = ZERO

\* pick_side_to_land_on_from_corner: the first of the two candidates, in
\* this order, that supports the player's width, with its normal corrected.
FirstThatFits(points, first, second, width) ==
    IF can_land_on_surface(width, first)
    THEN Some(correct_normal(first, points))
    ELSE IF can_land_on_surface(width, second)
    THEN Some(correct_normal(second, points))
    ELSE None

\* pick_side_to_land_on_from_corner, from the two sides at the vertex: sb
\* goes first when its normal is closer to the collision's.  panic is TRUE
\* where an expect of pick_adjacent_side fails.
FromAdjacentSides(points, sa, sb, collision_normal, width) ==
    IF ~IsSome(sa) \/ ~IsSome(sb)
    THEN [panic |-> TRUE, surface |-> None]
    ELSE [panic |-> FALSE,
          surface |->
            IF Dot(Get(sb).normal, collision_normal)
                   * ILen100(Get(sa).normal)
                 > Dot(Get(sa).normal, collision_normal)
                   * ILen100(Get(sb).normal)
            THEN FirstThatFits(points, Get(sb), Get(sa), width)
            ELSE FirstThatFits(points, Get(sa), Get(sb), width)]

\* A corner selection that builds its candidates without looking at the
\* motion first.
pick_from_corner_unguarded(points, index, player_motion, collision_normal, width) ==
    FromAdjacentSides(points,
        pick_adjacent_side(points, index, prior_point(points, index),
                           player_motion),
        pick_adjacent_side(points, index, next_point(points, index),
                           player_motion),
        collision_normal, width)

\* Player::pick_side_to_land_on_from_corner: [panic, surface]
pick_side_to_land_on_from_corner(points, index, player_motion, collision_normal, width) ==
    IF is_zero_approx(player_motion)
    THEN [panic |-> FALSE, surface |-> None]
    ELSE FromAdjacentSides(points,
             pick_adjacent_side(points, index, prior_point(points, index),
                                player_motion),
             pick_adjacent_side(points, index, next_point(points, index),
                                player_motion),
             collision_normal, width)

\* Option::filter
Filter(o, width) ==
    IF IsSome(o) /\ can_land_on_surface(width, Get(o)) THEN o ELSE None

\* pick_side_to_land_on: whether the side is the one that was hit
SideHit(surface, collision_position, collision_normal) ==
    /\ IsSome(surface)
    /\ hit_by(Get(surface), collision_position, collision_normal)

\* A choice between the neighbours that prefers the farther corner.
SideOrFartherNeighbour(surface, next_surface, prior_surface, width, global_position) ==
    IF can_land_on_surface(width, surface) THEN Some(surface)
    ELSE IF IsSome(next_surface) /\ IsSome(prior_surface)
    THEN IF DistSq(global_position, Get(next_surface).a)
              > DistSq(global_position, Get(prior_surface).a)
         THEN next_surface
         ELSE prior_surface
    ELSE IF IsSome(next_surface) THEN next_surface
    ELSE IF IsSome(prior_surface) THEN prior_surface
    ELSE Some(surface)

\* pick_side_to_land_on: the side that was hit, or a neighbour of it when
\* the player does not fit on it
SideOrNeighbour(surface, next_surface, prior_surface, width, global_position) ==
    IF can_land_on_surface(width, surface) THEN Some(surface)
    ELSE IF IsSome(next_surface) /\ IsSome(prior_surface)
    THEN IF DistSq(global_position, Get(next_surface).a)
              < DistSq(global_position, Get(prior_surface).a)
         THEN next_surface
         ELSE prior_surface
    ELSE IF IsSome(next_surface) THEN next_surface
    ELSE IF IsSome(prior_surface) THEN prior_surface
    ELSE Some(surface)

\* pick_side_to_land_on: the body of the loop for the side i, which was hit
SideAt(points, i, player_motion, width, global_position) ==
    SideOrNeighbour(
        Get(NewSurface(points[i], points[next_point(points, i)],
                       player_motion)),
        Filter(find_surface(points, next_point(points, i),
                   next_point(points, next_point(points, i))), width),
        Filter(find_surface(points, i, prior_point(points, i)), width),
        width, global_position)

\* pick_side_to_land_on: the loop returns at the first side that was hit
FirstSide(hits, points, player_motion, width, global_position) ==
    IF hits = {} THEN None
    ELSE SideAt(points, CHOOSE k \in hits : \A j \in hits : k <= j,
                player_motion, width, global_position)

\* A selection that never finds the side that was hit.
pick_no_side(points, collision_position, player_motion, collision_normal, width, global_position) == None

\* Player::pick_side_to_land_on
pick_side_to_land_on(points, collision_position, player_motion, collision_normal, width, global_position) ==
    FirstSide({i \in 1..Len(points) :
                 SideHit(NewSurface(points[i], points[next_point(points, i)],
                                    player_motion),
                         collision_position, collision_normal)},
              points, player_motion, width, global_position)

\* Player::find_shimmy_dest_internal, in global coordinates (the caller
\* converts to local).
find_shimmy_dest_internal(a, b, n, current_position, width, height_above) ==
    LET player_middle == Sub(current_position, Along(n, height_above))
        sd == TryNormalized(Sub(a, b))
    IN  IF ~IsSome(sd) THEN None
        ELSE
          LET surface_direction == Get(sd)
              bottom_corner ==
                  Add(player_middle, Along(surface_direction, width \div 2))
              v == Sub(a, bottom_corner)
              vd == Dot(v, surface_direction)
          IN  IF v = ZERO THEN None
              \* v.normalized().dot(surface_direction) < -0.95
              ELSE IF /\ vd < 0
                      /\ OVERHANG_DEN * OVERHANG_DEN * vd * vd
                           > OVERHANG_NUM * OVERHANG_NUM
                               * LenSq(v) * LenSq(surface_direction)
              THEN Some(Add(current_position,
                            DivV(Scale(WIDTH_MODIFIER_NUM, v), ONE)))
              ELSE None

\* find_shimmy_dest: the first attempt if it found a destination, else the
\* second
OrElse(first, second) == IF IsSome(first) THEN first ELSE second

\* Player::find_shimmy_dest
find_shimmy_dest(surface, current_position, width, height_above) ==
    OrElse(find_shimmy_dest_internal(surface.a, surface.b, surface.normal,
                                     current_position, width, height_above),
           find_shimmy_dest_internal(surface.b, surface.a, surface.normal,
                                     current_position, width, height_above))

(***************************************************************************)
(* The world of the model.  Times are in milliseconds (delta * 1000),      *)
(* velocities in grid steps per second.                                    *)
(***************************************************************************)
\* The length of a physics tick: 60 ticks a second.
Deltas == {16}

\* The collision polygons a tile-map layer returns (get_collider_points,
\* after smooth_polygon).  LShape is a block whose first two edges,
\* (0,0)-(10,0) and (10,0)-(10,10), are short and whose others are long;
\* Wall is a block whose left side is the edge (10,0)-(10,10); Block is a
\* square whose sides are all as short as that.
LShape == << <<0, 0>>, <<100, 0>>, <<100, 100>>, <<300, 100>>,
             <<300, 300>>, <<0, 300>> >>
Wall == << <<100, 0>>, <<100, 100>>, <<300, 100>>, <<300, 0>> >>
Block == << <<0, 0>>, <<100, 0>>, <<100, 100>>, <<0, 100>> >>

\* Where the engine reports a collision with a tile: a vertex, a point
\* inside an edge, a point off the polygon.
TileHits ==
    {[points |-> Some(LShape), position |-> p] :
        p \in {<<100, 0>>, <<50, 0>>, <<50, -30>>}}
    \cup {[points |-> Some(Wall), position |-> p] : p \in {<<100, 50>>}}
    \cup {[points |-> Some(Block), position |-> p] : p \in {<<50, 0>>}}

\* The engine's raw collision normals: the four axes and a slanted one.
RawNormals == { <<0, -1>>, <<0, 1>>, <<1, 0>>, <<-1, 0>>, <<3, -4>> }

\* The penetration depth the engine reports for a body that overlaps
\* another at the start of its motion.
OverlapDepth == 10

\* The player's collision rectangle (CollisionShape2D) and shimmy_speed: a
\* player that fits on the short edges, slow and fast, and one that does
\* not fit.
Players == { [size |-> <<40, 20>>, shimmy_speed |-> 750],
             [size |-> <<40, 20>>, shimmy_speed |-> 1875],
             [size |-> <<160, 20>>, shimmy_speed |-> 750] }

\* The player may move freely inside this box; the level is walled in, so a
\* sweep that would leave it collides.
ArenaSize == 150
InArena(p) == /\ -ArenaSize <= p[1] /\ p[1] <= ArenaSize
              /\ -ArenaSize <= p[2] /\ p[2] <= ArenaSize

\* The player falls no faster than this before the engine reports a
\* collision (steps per second).
MaxFallSpeed == 500

\* The jump button is released before it has been held this long (ms).
MaxHold == 32

\* The player jumps at most this often in a run.
MaxJumps == 1

VARIABLES
    \* Player
    position, rotation, direction, target_velocity, max_jump_strength,
    fall_acceleration, on_surface, on_ceiling, shimmy_speed, shimmy_dest,
    \* the scene around the player: its parent's origin, its collision
    \* rectangle's size, the body's safe margin
    scene,
    \* JumpHandler and its JumpKeyDetector and JumpMeter
    length_of_jump_press_ms, max_time_ms, max_jump_strength_for_testing,
    wait_for_next_press, jump_meter,
    \* whether the nodes have entered the tree (ready has run)
    is_ready,
    \* how often the player has jumped
    jumps,
    \* Level: its state and the nodes of the group "prey"
    level,
    \* Alligator: its state and its upper jaw's rotation
    alligator,
    \* the bodies around the alligator, and the signals of its areas that
    \* the engine has yet to deliver
    bodies, pending,
    \* what the last step did (history, read by the properties only)
    last

player_vars == <<position, rotation, direction, target_velocity, on_surface,
                 on_ceiling, shimmy_dest>>
config_vars == <<max_jump_strength, fall_acceleration, shimmy_speed, scene,
                 max_time_ms, max_jump_strength_for_testing>>
handler_vars == <<length_of_jump_press_ms, wait_for_next_press, jump_meter>>
world_vars == <<level, alligator, bodies, pending>>
vars == <<player_vars, config_vars, handler_vars, is_ready, jumps, last,
          world_vars>>

\* Direction
Left == "Left"
Right == "Right"

\* A rotation is kept as the direction it turns the x axis to.
ROTATION_ZERO == <<1, 0>>
\* normal.angle() + PI / 2
RotationFor(n) == <<-n[2], n[1]>>

(***************************************************************************)
(* jump_handler.rs                                                         *)
(***************************************************************************)
\* A ratio n/d in lowest terms.
Ratio(n, d) == LET g == Gcd(n, d) IN <<n \div g, d \div g>>
RatioGt(r, q) == r[1] * q[2] > q[1] * r[2]

\* JumpKeyDetector::is_jump_pressed, given what Input::is_action_pressed
\* returns: [pressed, wait]
is_jump_pressed(jump_pressed, wait) ==
    IF wait
    THEN [pressed |-> FALSE, wait |-> jump_pressed]
    ELSE [pressed |-> jump_pressed, wait |-> FALSE]

\* An early check that never arms the detector.
check_for_early_jump_unarmed(jump_pressed, wait) == wait

\* JumpKeyDetector::check_for_early_jump: the new wait_for_next_press
check_for_early_jump(jump_pressed, wait) ==
    LET r == is_jump_pressed(jump_pressed, wait)
    IN  IF r.pressed THEN TRUE ELSE r.wait

\* A handler that does not count the frame in which the button is released.
handle_input_dropping_last_frame(delta_ms, jump_pressed, length, wait, meter, max_time, max_for_testing) ==
    LET det == is_jump_pressed(jump_pressed, wait)
    IN  IF ~IsSome(length)
        THEN IF det.pressed
             THEN [result |-> None, length |-> Some(0), wait |-> det.wait,
                   meter |-> [visible |-> TRUE, ratio |-> Ratio(0, 1)]]
             ELSE [result |-> None, length |-> None, wait |-> det.wait,
                   meter |-> meter]
        ELSE
          LET duration == Get(length) + (IF det.pressed THEN delta_ms ELSE 0)
              full == IF duration >= max_time THEN Ratio(1, 1)
                      ELSE Ratio(duration, max_time)
              strength == IF RatioGt(full, max_for_testing)
                          THEN max_for_testing ELSE full
          IN  IF det.pressed
              THEN [result |-> None, length |-> Some(duration),
                    wait |-> det.wait,
                    meter |-> [visible |-> meter.visible,
                               ratio |-> strength]]
              ELSE [result |-> Some(strength), length |-> None,
                    wait |-> det.wait,
                    meter |-> [visible |-> FALSE, ratio |-> meter.ratio]]

\* A handler that answers a press at once, with strength 0.
handle_input_on_press(delta_ms, jump_pressed, length, wait, meter, max_time, max_for_testing) ==
    LET det == is_jump_pressed(jump_pressed, wait)
    IN  IF ~IsSome(length)
        THEN IF det.pressed
             THEN [result |-> Some(Ratio(0, 1)), length |-> None,
                   wait |-> det.wait, meter |-> meter]
             ELSE [result |-> None, length |-> None, wait |-> det.wait,
                   meter |-> meter]
        ELSE
          LET duration == Get(length) + delta_ms
              full == IF duration >= max_time THEN Ratio(1, 1)
                      ELSE Ratio(duration, max_time)
              strength == IF RatioGt(full, max_for_testing)
                          THEN max_for_testing ELSE full
          IN  IF det.pressed
              THEN [result |-> None, length |-> Some(duration),
                    wait |-> det.wait,
                    meter |-> [visible |-> meter.visible,
                               ratio |-> strength]]
              ELSE [result |-> Some(strength), length |-> None,
                    wait |-> det.wait,
                    meter |-> [visible |-> FALSE, ratio |-> meter.ratio]]

\* A handler that does not hide the meter on release.
handle_input_keeping_meter(delta_ms, jump_pressed, length, wait, meter, max_time, max_for_testing) ==
    LET det == is_jump_pressed(jump_pressed, wait)
    IN  IF ~IsSome(length)
        THEN IF det.pressed
             THEN [result |-> None, length |-> Some(0), wait |-> det.wait,
                   meter |-> [visible |-> TRUE, ratio |-> Ratio(0, 1)]]
             ELSE [result |-> None, length |-> None, wait |-> det.wait,
                   meter |-> meter]
        ELSE
          LET duration == Get(length) + delta_ms
              full == IF duration >= max_time THEN Ratio(1, 1)
                      ELSE Ratio(duration, max_time)
              strength == IF RatioGt(full, max_for_testing)
                          THEN max_for_testing ELSE full
          IN  IF det.pressed
              THEN [result |-> None, length |-> Some(duration),
                    wait |-> det.wait,
                    meter |-> [visible |-> meter.visible,
                               ratio |-> strength]]
              ELSE [result |-> Some(strength), length |-> None,
                    wait |-> det.wait,
                    meter |-> meter]

\* JumpHandler::handle_input, given delta in ms and the input's state:
\* [result, length, wait, meter]
handle_input(delta_ms, jump_pressed, length, wait, meter, max_time, max_for_testing) ==
    LET det == is_jump_pressed(jump_pressed, wait)
    IN  IF ~IsSome(length)
        THEN IF det.pressed
             THEN [result |-> None, length |-> Some(0), wait |-> det.wait,
                   meter |-> [visible |-> TRUE, ratio |-> Ratio(0, 1)]]
             ELSE [result |-> None, length |-> None, wait |-> det.wait,
                   meter |-> meter]
        ELSE
          LET duration == Get(length) + delta_ms
              full == IF duration >= max_time THEN Ratio(1, 1)
                      ELSE Ratio(duration, max_time)
              strength == IF RatioGt(full, max_for_testing)
                          THEN max_for_testing ELSE full
          IN  IF det.pressed
              THEN [result |-> None, length |-> Some(duration),
                    wait |-> det.wait,
                    meter |-> [visible |-> meter.visible,
                               ratio |-> strength]]
              ELSE [result |-> Some(strength), length |-> None,
                    wait |-> det.wait,
                    meter |-> [visible |-> FALSE, ratio |-> meter.ratio]]

(***************************************************************************)
(* player.rs: the player in its scene                                      *)
(***************************************************************************)
\* Node2D::to_global / to_local of the parent, which is not rotated or
\* scaled: a translation by its origin.
to_global(p) == Add(p, scene.parent)
to_local_position(g) == Sub(g, scene.parent)
get_global_position(pos) == to_global(pos)

width == scene.size[1]
height == scene.size[2]
height_above_surface == height \div 2 + scene.safe_margin

\* JUMP_ANGLE = 5 PI / 16: its sine and cosine, in thousandths.
JUMP_SIN == 831
JUMP_COS == 556

\* Player::get_jump, for the ratio jump_ratio = <<n, d>>:
\* Vector2(0, jump_strength).rotated(jump_angle)
get_jump(jump_ratio, dir, ceiling) ==
    LET ceiling_multiplier == IF ceiling THEN 1 ELSE -1
        jump_strength ==
            QuoT(jump_ratio[1] * max_jump_strength * ceiling_multiplier,
                 jump_ratio[2])
        \* the sign of jump_angle
        angle_sign == (IF dir = Left THEN 1 ELSE -1) * ceiling_multiplier
    IN  << QuoT(-jump_strength * angle_sign * JUMP_SIN, 1000),
           QuoT(jump_strength * JUMP_COS, 1000) >>

\* c > 0.5, for a component c of the unit vector along n
\* A comparison with 0.75 in place of 0.5.
GtThreeQuarters(c, n) == c > 0 /\ 16 * c * c > 9 * LenSq(n)

GtHalf(c, n) == c > 0 /\ 4 * c * c > LenSq(n)

\* An orientation by the normal's dominant axis.
OrientByDominantAxis(n, dir, ceiling) ==
    IF Abs(n[1]) > Abs(n[2])
    THEN [direction |-> IF n[1] > 0 THEN Right ELSE Left,
          on_ceiling |-> ceiling]
    ELSE [direction |-> dir, on_ceiling |-> ceiling \/ n[2] > 0]

\* An orientation that faces the wall instead of away from it.
OrientTowardsWall(n, dir, ceiling) ==
    IF GtHalf(n[1], n) THEN [direction |-> Left, on_ceiling |-> ceiling]
    ELSE IF GtHalf(-n[1], n) THEN [direction |-> Right, on_ceiling |-> ceiling]
    ELSE IF GtHalf(n[2], n) THEN [direction |-> dir, on_ceiling |-> TRUE]
    ELSE [direction |-> dir, on_ceiling |-> ceiling]

\* The orientation match of physics_process on the landing normal:
\* [direction, on_ceiling]
Orient(n, dir, ceiling) ==
    IF GtHalf(n[1], n) THEN [direction |-> Right, on_ceiling |-> ceiling]
    ELSE IF GtHalf(-n[1], n) THEN [direction |-> Left, on_ceiling |-> ceiling]
    ELSE IF GtHalf(n[2], n) THEN [direction |-> dir, on_ceiling |-> TRUE]
    ELSE [direction |-> dir, on_ceiling |-> ceiling]

\* A shimmy that never snaps to the destination.
ShimmyWithoutSnap(old_position, dest, speed, delta) ==
    LET dir == TryNormalized(Sub(dest, old_position))
    IN  IF ~IsSome(dir) THEN dest
        ELSE Add(old_position,
                 Along(Get(dir), QuoT(speed * delta, 1000)))

\* The shimmy branch of physics_process: the new position.
ShimmyPosition(old_position, dest, speed, delta) ==
    LET dir == TryNormalized(Sub(dest, old_position))
    IN  IF ~IsSome(dir) THEN dest
        ELSE
          LET movement == Along(Get(dir), QuoT(speed * delta, 1000))
              possible_position == Add(old_position, movement)
          IN  IF DistSq(possible_position, dest) < ONE * ONE
              THEN dest
              ELSE possible_position

\* The push back out of a penetration, along the reversed motion:
\* offset * reverse_motion with offset = depth / cos(angle to the normal).
PushBack(motion, depth, n) ==
    LET reverse_motion == Neg(motion)
    IN  DivV(Scale(depth * ILen100(n), reverse_motion),
             100 * Dot(reverse_motion, n))

\* The landing surface physics_process selects for a collision:
\* [panic, surface]
SelectSurface(collider, points, collision_position, motion, collision_normal, global_position) ==
    IF collider = "tile_map_layer" /\ IsSome(points)
    THEN LET index == Find(Get(points), collision_position)
         IN  IF IsSome(index)
             THEN pick_side_to_land_on_from_corner(Get(points), Get(index),
                      motion, collision_normal, width)
             ELSE [panic |-> FALSE,
                   surface |-> pick_side_to_land_on(Get(points),
                       collision_position, motion, collision_normal, width,
                       global_position)]
    ELSE [panic |-> FALSE, surface |-> None]

(***************************************************************************)
(* What the engine may answer to move_and_collide                          *)
(***************************************************************************)
NoCollision ==
    [collides |-> FALSE, collider |-> "none", points |-> None,
     position |-> ZERO, normal |-> ZERO, travel |-> 1, depth |-> 0]

\* KinematicCollision2D: one whose collider is gone, one with a body that is
\* no tile-map layer, and the collisions with a tile.
Collisions ==
    {[collides |-> TRUE, collider |-> "none", points |-> None,
      position |-> <<50, 0>>, normal |-> <<0, -1>>, travel |-> 0,
      depth |-> 0]}
    \* a body overlapped from the start
    \cup {[collides |-> TRUE, collider |-> "other", points |-> None,
           position |-> <<50, 0>>, normal |-> n, travel |-> 0,
           depth |-> OverlapDepth] : n \in RawNormals}
    \* a tile met at the end of the motion
    \cup {[collides |-> TRUE, collider |-> "tile_map_layer",
           points |-> h.points, position |-> h.position, normal |-> n,
           travel |-> 1, depth |-> 0] : h \in TileHits, n \in RawNormals}

\* The normal of the surface a player with this rotation rests on: the
\* inverse of RotationFor.
RestNormal(rot) == <<rot[2], -rot[1]>>

\* The overlap the engine may report for a player that does not move: with
\* the corner of the block it rests on.
RestCollision(rot) ==
    [collides |-> TRUE, collider |-> "tile_map_layer",
     points |-> Some(LShape), position |-> <<100, 0>>,
     normal |-> RestNormal(rot), travel |-> 0, depth |-> OverlapDepth]

\* What move_and_collide may answer.  A collision's normal opposes the
\* motion; a player that does not move collides only by overlapping what it
\* rests on.
Sweeps(motion) ==
    (IF motion = ZERO
     THEN {RestCollision(rotation)}
     ELSE {e \in Collisions :
             e.collider # "none" => Dot(motion, e.normal) < 0})
    \cup {NoCollision}

\* The collision a test-only move_and_collide(ZERO) may report after the
\* rotation to upright.
RotationCollisions == {None, Some([normal |-> <<0, -1>>, depth |-> 5])}

(***************************************************************************)
(* physics_process: the handling of a collision                            *)
(***************************************************************************)
\* The landing on the corner surface.a: the shimmy leads along the surface.
PlaceAtCorner(s, new_player_position) ==
    [position |-> new_player_position,
     shimmy_dest |->
        IF s.a # s.b
        THEN Some(Add(new_player_position,
                      Along(Get(TryNormalized(Sub(s.b, s.a))),
                            QuoT((width \div 2) * WIDTH_MODIFIER_NUM, ONE))))
        ELSE None]

\* The result of find_shimmy_dest in the parent's coordinates
ToLocal(dest) ==
    IF IsSome(dest) THEN Some(to_local_position(Get(dest))) ELSE None

\* A landing inside an edge that shimmies when the player does not fit.
PlaceMidEdgeWhenNarrow(s, new_player_position) ==
    [position |-> new_player_position,
     shimmy_dest |->
        IF ~can_land_on_surface(width, s)
        THEN ToLocal(find_shimmy_dest(s,
                         get_global_position(new_player_position), width,
                         height_above_surface))
        ELSE None]

\* The landing inside an edge: the shimmy leads fully onto the surface.
PlaceMidEdge(s, new_player_position) ==
    [position |-> new_player_position,
     shimmy_dest |->
        IF can_land_on_surface(width, s)
        THEN ToLocal(find_shimmy_dest(s,
                         get_global_position(new_player_position), width,
                         height_above_surface))
        ELSE None]

\* normal.dot(global_position) - normal.dot(surface.a)
DistanceToSurface(n, global_position, a) ==
    QuoT(100 * Dot(n, Sub(global_position, a)), ILen100(n))

\* The move onto the surface and the shimmy destination the landing asks
\* for.
Place(surface, collision_position, n, pos) ==
    IF ~IsSome(surface)
    THEN [position |-> pos, shimmy_dest |-> None]
    ELSE IF collision_position = Get(surface).a
    THEN PlaceAtCorner(Get(surface),
             to_local_position(Add(Get(surface).a,
                                   Along(n, height_above_surface))))
    ELSE PlaceMidEdge(Get(surface),
             Add(pos, Along(n, height_above_surface
                                 - DistanceToSurface(n,
                                       get_global_position(pos),
                                       Get(surface).a))))

\* The player's fields once it has landed.
Landed(surface, n, o, place) ==
    [panic |-> FALSE, position |-> place.position,
     rotation |-> RotationFor(n), direction |-> o.direction,
     on_surface |-> TRUE, on_ceiling |-> o.on_ceiling,
     shimmy_dest |-> place.shimmy_dest, surface |-> surface,
     normal |-> Some(n)]

\* The landing with the normal n: orientation, then position.
LandWith(surface, n, collision_position, pos) ==
    Landed(surface, n, Orient(n, direction, on_ceiling),
           Place(surface, collision_position, n, pos))

\* The landing on what the selection returned.  Where the expect of
\* pick_adjacent_side panics the tick is aborted: the fields written
\* before it stay.
LandOn(e, sel, pos) ==
    IF sel.panic
    THEN [panic |-> TRUE, position |-> pos, rotation |-> rotation,
          direction |-> direction, on_surface |-> on_surface,
          on_ceiling |-> on_ceiling, shimmy_dest |-> shimmy_dest,
          surface |-> None, normal |-> None]
    ELSE LandWith(sel.surface,
                  IF IsSome(sel.surface) THEN Get(sel.surface).normal
                  ELSE e.normal,
                  e.position, pos)

\* The landing of the player pushed back to pos.
LandAt(e, motion, pos) ==
    LandOn(e,
           SelectSurface(e.collider, e.points, e.position, motion, e.normal,
                         get_global_position(pos)),
           pos)

\* The branch "if let Some(collider) = collision.get_collider()": the
\* player's fields after it, would_collide answering false.
Land(e, motion, swept_position) ==
    LandAt(e, motion,
           IF e.depth > 0 /\ motion # ZERO
           THEN Add(swept_position, PushBack(motion, e.depth, e.normal))
           ELSE swept_position)

\* The player's fields after the sweep that answered e.
AfterSweep(e, motion, moved) ==
    IF e.collides /\ e.collider # "none"
    THEN Land(e, motion, IF e.travel = 1 THEN moved ELSE position)
    ELSE [panic |-> FALSE,
          position |-> IF e.collides /\ e.travel = 0 THEN position
                       ELSE moved,
          rotation |-> rotation, direction |-> direction,
          on_surface |-> on_surface, on_ceiling |-> on_ceiling,
          shimmy_dest |-> shimmy_dest, surface |-> None, normal |-> None]

\* A landing that starts its shimmy whatever would_collide answers.
StartShimmyRegardless(st0, blocked) == st0

\* The landing st0 once would_collide has answered for the motion to its
\* shimmy destination: a shimmy that would collide is not started.
StartShimmy(st0, blocked) ==
    IF blocked THEN [st0 EXCEPT !.shimmy_dest = None] ELSE st0

\* A jump that turns the player upright even under a ceiling.
JumpAlwaysUpright(st, jump_strength, rc) ==
    [position |-> st.position, rotation |-> ROTATION_ZERO,
     target_velocity |-> get_jump(jump_strength, st.direction,
                                  st.on_ceiling),
     on_surface |-> FALSE, on_ceiling |-> FALSE]

\* A jump that forgets to leave the ceiling.
JumpKeepingCeiling(st, jump_strength, rc) ==
    [position |-> st.position, rotation |-> st.rotation,
     target_velocity |-> get_jump(jump_strength, st.direction,
                                  st.on_ceiling),
     on_surface |-> FALSE, on_ceiling |-> st.on_ceiling]

\* The jump of physics_process, once handle_input has returned a strength:
\* the player's fields after it.  rc is what the test-only
\* move_and_collide(ZERO) answers after the rotation to upright.
Jump(st, jump_strength, rc) ==
    [position |->
        IF ~st.on_ceiling /\ IsSome(rc)
        THEN Add(st.position,
                 Along(Get(rc).normal,
                       Get(rc).depth + (width - height) \div 2))
        ELSE st.position,
     rotation |-> IF st.on_ceiling THEN st.rotation ELSE ROTATION_ZERO,
     target_velocity |-> get_jump(jump_strength, st.direction,
                                  st.on_ceiling),
     on_surface |-> FALSE,
     on_ceiling |-> FALSE]

(***************************************************************************)
(* The state machine                                                       *)
(***************************************************************************)
\* Level::init and Alligator::init: a level without prey, an idle alligator
\* with its jaw closed and nobody near it.
LevelInit(prey) ==
    [state |-> "Playing", prey |-> prey, queued |-> {}, eaten |-> {},
     all |-> prey]
Idle == [name |-> "Idle"]
AlligatorInit == [state |-> Idle, jaw |-> 0, scale |-> 1]
NoWorld ==
    /\ level = LevelInit({})
    /\ alligator = AlligatorInit
    /\ bodies = <<>>
    /\ pending = {}

\* PlayerInfo values a level hands to set_player_info, and the exported
\* position, velocity and direction a scene starts a player with.
PlayerInfos ==
    { [pos |-> <<100, -40>>, vel |-> ZERO, dir |-> Left],
      [pos |-> <<60, 50>>, vel |-> <<1000, 0>>, dir |-> Right] }

NoStep(op) ==
    [op |-> op, shimmying |-> FALSE, swept |-> FALSE, polled |-> FALSE,
     panicked |-> FALSE, jumped |-> FALSE, airborne |-> FALSE,
     origin |-> ZERO, collider |-> "no_collision", motion |-> ZERO,
     cnormal |-> ZERO, cposition |-> ZERO, surface |-> None,
     landed |-> None, blocked |-> FALSE, strength |-> None,
     before_jump |-> None]

\* Player::init and JumpHandler::init, with the exported fields as a scene
\* sets them.
Init ==
    /\ \E info \in PlayerInfos :
         /\ position = info.pos
         /\ target_velocity = info.vel
         /\ direction = info.dir
    /\ rotation = ROTATION_ZERO
    /\ on_surface = FALSE
    /\ on_ceiling = FALSE
    /\ shimmy_dest = None
    /\ max_jump_strength = 1000
    /\ fall_acceleration = 60000
    /\ \E p \in Players, delta \in Deltas :
         /\ shimmy_speed = p.shimmy_speed
         /\ scene = [parent |-> <<0, 0>>, size |-> p.size,
                     safe_margin |-> 1, delta_ms |-> delta]
    /\ length_of_jump_press_ms = None
    /\ max_time_ms = 32
    /\ max_jump_strength_for_testing = Ratio(1, 1)
    /\ wait_for_next_press = FALSE
    /\ jump_meter = [visible |-> TRUE, ratio |-> Ratio(0, 1)]
    /\ is_ready = FALSE
    /\ jumps = 0
    /\ NoWorld
    /\ last = NoStep("init")

\* The nodes enter the tree: JumpHandler::ready (Player::ready only sets up
\* the sprite, the idle timer and the camera).
Ready ==
    /\ ~is_ready
    /\ is_ready' = TRUE
    /\ \E jump_pressed \in BOOLEAN :
         wait_for_next_press' =
             check_for_early_jump(jump_pressed, wait_for_next_press)
    /\ jump_meter' = [jump_meter EXCEPT !.visible = FALSE]
    /\ last' = NoStep("ready")
    /\ UNCHANGED <<player_vars, config_vars, length_of_jump_press_ms, jumps,
                   world_vars>>

\* Player::set_player_info, from Level::respawn (before the player enters
\* the tree) and Tutorial::reset_player (on the live player).
SetPlayerInfo ==
    /\ \E info \in PlayerInfos :
         /\ position' = info.pos
         /\ target_velocity' = info.vel
         /\ direction' = info.dir
    /\ last' = NoStep("set_player_info")
    /\ UNCHANGED <<rotation, on_surface, on_ceiling, shimmy_dest,
                   config_vars, handler_vars, is_ready, jumps, world_vars>>

\* A shimmy tick that integrates gravity.
ShimmyTickWithGravity ==
    /\ position' = ShimmyPosition(position, Get(shimmy_dest), shimmy_speed,
                                  scene.delta_ms)
    /\ shimmy_dest' = IF position' = Get(shimmy_dest) THEN None
                      ELSE shimmy_dest
    /\ target_velocity' =
         <<target_velocity[1],
           target_velocity[2]
             + QuoT(scene.delta_ms * fall_acceleration, 1000)>>
    /\ last' = [NoStep("physics_process") EXCEPT !.shimmying = TRUE,
                                                 !.origin = position]
    /\ UNCHANGED <<rotation, direction, on_surface, on_ceiling,
                   handler_vars, jumps>>

\* physics_process with shimmy_dest present
ShimmyTick ==
    LET new_position == ShimmyPosition(position, Get(shimmy_dest),
                                       shimmy_speed, scene.delta_ms)
    IN  /\ position' = new_position
        /\ shimmy_dest' = IF new_position = Get(shimmy_dest) THEN None
                          ELSE shimmy_dest
        /\ last' = [NoStep("physics_process") EXCEPT !.shimmying = TRUE,
                                                     !.origin = position]
        /\ UNCHANGED <<rotation, direction, target_velocity, on_surface,
                       on_ceiling, handler_vars, jumps>>

\* physics_process without a shimmy: gravity, the sweep, the collision and
\* the jump.
SweepTick ==
    LET delta == scene.delta_ms
        velocity == IF ~on_surface
                    THEN <<target_velocity[1],
                           target_velocity[2]
                             + QuoT(delta * fall_acceleration, 1000)>>
                    ELSE target_velocity
        motion == Scale(delta, velocity)
        moved == Add(position, DivV(motion, 1000))
    IN
    \E e \in Sweeps(motion) :
    \E st0 \in {AfterSweep(e, motion, moved)} :
    \* would_collide: a shimmy that would collide is not started
    \E blocked \in IF IsSome(st0.shimmy_dest) THEN BOOLEAN ELSE {FALSE} :
    \E st \in {StartShimmy(st0, blocked)} :
    \E polled \in {~st.panic /\ st.on_surface} :
    \E step \in {[NoStep("physics_process") EXCEPT
                    !.swept = TRUE, !.polled = polled,
                    !.panicked = st.panic, !.airborne = ~on_surface,
                    !.collider = IF e.collides THEN e.collider
                                 ELSE "no_collision",
                    !.motion = <<Sign(motion[1]), Sign(motion[2])>>,
                    !.cnormal = e.normal, !.cposition = e.position,
                    !.surface = st.surface, !.blocked = blocked,
                    !.landed =
                       IF IsSome(st.normal)
                       THEN Some([direction |-> st.direction,
                                  on_surface |-> st.on_surface,
                                  on_ceiling |-> st.on_ceiling,
                                  normal |-> Get(st.normal),
                                  old_direction |-> direction,
                                  old_on_ceiling |-> on_ceiling])
                       ELSE None]} :
      \* the player stays in the level and has landed before it exceeds
      \* the terminal speed, unless the tick is aborted
      /\ InArena(st.position)
      /\ st.on_surface \/ st.panic \/ velocity[2] <= MaxFallSpeed
      /\ shimmy_dest' = st.shimmy_dest
      /\ direction' = st.direction
      /\ IF ~polled
         THEN /\ position' = st.position
              /\ rotation' = st.rotation
              /\ target_velocity' = velocity
              /\ on_surface' = st.on_surface
              /\ on_ceiling' = st.on_ceiling
              /\ last' = step
              /\ UNCHANGED <<handler_vars, jumps>>
         ELSE
           \E jump_pressed \in
                IF \/ /\ IsSome(length_of_jump_press_ms)
                      /\ Get(length_of_jump_press_ms) + delta >= MaxHold
                   \/ /\ ~IsSome(length_of_jump_press_ms)
                      /\ jumps >= MaxJumps
                THEN {FALSE} ELSE BOOLEAN :
           \E h \in {handle_input(delta, jump_pressed,
                         length_of_jump_press_ms, wait_for_next_press,
                         jump_meter, max_time_ms,
                         max_jump_strength_for_testing)} :
             /\ length_of_jump_press_ms' = h.length
             /\ wait_for_next_press' = h.wait
             /\ jump_meter' = h.meter
             /\ IF IsSome(h.result)
                THEN
                  \E rc \in IF st.on_ceiling THEN {None}
                            ELSE RotationCollisions :
                  \E j \in {Jump(st, Get(h.result), rc)} :
                    /\ position' = j.position
                    /\ rotation' = j.rotation
                    /\ target_velocity' = j.target_velocity
                    /\ on_surface' = j.on_surface
                    /\ on_ceiling' = j.on_ceiling
                    /\ jumps' = jumps + 1
                    /\ last' = [step EXCEPT
                                  !.jumped = TRUE,
                                  !.strength = h.result,
                                  !.before_jump =
                                     Some([rotation |-> st.rotation,
                                           direction |-> st.direction,
                                           on_ceiling |-> st.on_ceiling])]
                ELSE
                  /\ position' = st.position
                  /\ rotation' = st.rotation
                  /\ target_velocity' = ZERO
                  /\ on_surface' = st.on_surface
                  /\ on_ceiling' = st.on_ceiling
                  /\ last' = step
                  /\ UNCHANGED jumps

\* A physics_process that sweeps even while a shimmy is in progress.
PhysicsProcessIgnoringShimmy ==
    /\ is_ready
    /\ SweepTick
    /\ UNCHANGED <<config_vars, is_ready, world_vars>>

\* Player::physics_process
PhysicsProcess ==
    /\ is_ready
    /\ IF IsSome(shimmy_dest) THEN ShimmyTick ELSE SweepTick
    /\ UNCHANGED <<config_vars, is_ready, world_vars>>

Next == Ready \/ SetPlayerInfo \/ PhysicsProcess

Spec == Init /\ [][Next]_vars

\* The physics loop alone.  The engine keeps calling physics_process: a
\* shimmy in progress gets its next tick.
NextTick == Ready \/ PhysicsProcess

ShimmyingTick == IsSome(shimmy_dest) /\ PhysicsProcess

FairSpec == Init /\ [][NextTick]_vars /\ WF_vars(ShimmyingTick)

(***************************************************************************)
(* Properties                                                              *)
(***************************************************************************)
Tick == last.op = "physics_process"
Landing == Get(last.landed)
\* the sweep of the last tick reported a collision with a collider
HitCollider == /\ Tick /\ last.swept
               /\ last.collider \in {"other", "tile_map_layer"}

\* C1: a physics step never panics on geometry: whatever the polygon, the
\* collision position, the normal and the motion, the surface selection
\* returns a surface or None and the tick runs to completion.
C1_TickNeverPanics == ~last.panicked

\* C1: the tick that falls straight down onto the vertex (10,0) of LShape,
\* whose edge (10,0)-(10,10) is parallel to the motion, has been aborted.
C1_ParallelEdgePanic ==
    /\ last.panicked
    /\ last.motion = <<0, 1>>
    /\ last.cposition = <<100, 0>>

\* C2: in every reachable state, on_ceiling implies on_surface.
C2_CeilingImpliesSurface == on_ceiling => on_surface

\* C2: a player on the ceiling has had set_player_info called on it.
C2_CeilingAfterSetPlayerInfo ==
    on_ceiling /\ on_surface /\ last.op = "set_player_info"

\* C3: a tick that starts with shimmy_dest present changes only the
\* position and possibly clears shimmy_dest: velocity, direction,
\* on_surface, on_ceiling and rotation stay, no gravity, no sweep, and the
\* jump handler is not polled.
C3_ShimmyTickOnlyMoves ==
    [][(IsSome(shimmy_dest) /\ last'.op = "physics_process") =>
         /\ target_velocity' = target_velocity
         /\ direction' = direction
         /\ on_surface' = on_surface
         /\ on_ceiling' = on_ceiling
         /\ rotation' = rotation
         /\ shimmy_dest' \in {shimmy_dest, None}
         /\ ~last'.swept
         /\ ~last'.polled
         /\ UNCHANGED handler_vars]_vars

\* C3: a shimmy tick has run on an airborne player with a velocity, and
\* moved it.
C3_ShimmyTickRan ==
    /\ Tick /\ last.shimmying
    /\ position # last.origin
    /\ target_velocity # ZERO

\* the distance a shimmy tick moves: shimmy_speed * delta
ShimmyStep == QuoT(shimmy_speed * scene.delta_ms, 1000)

\* C4 as stated: whenever shimmy_dest is set, repeated ticks eventually
\* clear it, for any positive delta and shimmy_speed.
C4_EveryShimmyEnds == IsSome(shimmy_dest) ~> ~IsSome(shimmy_dest)

\* C4: whenever shimmy_dest is set and a tick moves less than 2.0 units,
\* repeated ticks eventually clear it.
C4_SmallStepShimmyEnds ==
    (IsSome(shimmy_dest) /\ shimmy_speed < (2 * ONE * 1000) \div scene.delta_ms)
      ~> ~IsSome(shimmy_dest)

\* C4: a shimmy of small steps has arrived.
C4_SmallStepShimmyArrived ==
    /\ Tick /\ last.shimmying /\ ~IsSome(shimmy_dest)
    /\ ShimmyStep < 2 * ONE
    /\ position # last.origin

\* p is at b, or between a and b: no further from b than a is, not beyond
\* b, and off the line a-b by less than a step of the grid.
AtOrBetween(p, a, b) ==
    \/ p = b
    \/ /\ DistSq(p, b) <= DistSq(a, b)
       /\ Dot(Sub(p, b), Sub(a, b)) > 0
       /\ Dot(Sub(p, a), Sub(b, a)) >= 0
       /\ Abs(Dot(Sub(p, a), Orthogonal(Sub(b, a))))
            <= Abs(b[1] - a[1]) + Abs(b[2] - a[2])

\* the step is shorter than the distance from p to dest plus 1.0
StepWithin(p, dest) ==
    ShimmyStep <= ONE \/ squared(ShimmyStep - ONE) < DistSq(p, dest)

\* C5 as stated: after a tick with shimmy_dest present the player is at
\* shimmy_dest or between its previous position and shimmy_dest.
C5_NeverOvershoots ==
    [][(IsSome(shimmy_dest) /\ last'.op = "physics_process") =>
         AtOrBetween(position', position, Get(shimmy_dest))]_vars

\* C5: after a tick with shimmy_dest present whose step is shorter than the
\* distance to shimmy_dest plus 1.0, the player is at shimmy_dest or between
\* its previous position and shimmy_dest.
C5_NoOvershootWithinStep ==
    [][(/\ IsSome(shimmy_dest) /\ last'.op = "physics_process"
        /\ StepWithin(position, Get(shimmy_dest))) =>
         AtOrBetween(position', position, Get(shimmy_dest))]_vars

\* C5: a shimmy tick has moved the player part of the way.
C5_MovedPartOfTheWay ==
    /\ Tick /\ last.shimmying /\ IsSome(shimmy_dest)
    /\ StepWithin(last.origin, Get(shimmy_dest))
    /\ position # last.origin

\* a tick that replaces a shimmy destination by another
OverrideTick ==
    PhysicsProcess /\ IsSome(shimmy_dest') /\ shimmy_dest' # shimmy_dest

\* C6 as stated: a shimmy in progress can be overridden: a tick can take
\* shimmy_dest from one destination directly to another.
C6_ShimmyCanBeOverridden == IsSome(shimmy_dest) => ENABLED OverrideTick

\* C6: a shimmy in progress is never overridden: while shimmy_dest is
\* present, a step leaves it alone or clears it.
C6_ShimmyNeverOverridden ==
    [][IsSome(shimmy_dest) => shimmy_dest' \in {shimmy_dest, None}]_vars

\* C6: a shimmy is in progress, a tick after the collision that set it.
C6_ShimmyInProgress ==
    /\ Tick /\ last.shimmying /\ IsSome(shimmy_dest)
    /\ on_surface

\* C7: whenever the sweep of a non-shimmy tick reports a collision with a
\* collider, tile-map layer or not, on_surface is true after the collision
\* is handled, and the normal used is the selected surface's if one was
\* selected, else the engine's raw normal.
C7_CollisionLands ==
    HitCollider =>
      /\ IsSome(last.landed)
      /\ Landing.on_surface
      /\ Landing.normal = IF IsSome(last.surface)
                          THEN Get(last.surface).normal
                          ELSE last.cnormal
      /\ last.jumped \/ rotation = RotationFor(Landing.normal)

\* C7: a collision with a collider at a vertex of a tile, by a motion
\* parallel to an edge at that vertex, was not handled: the tick was
\* aborted with the player still off the surface.
C7_CollisionNotHandled ==
    HitCollider /\ last.panicked /\ ~on_surface

\* C8 as stated: on landing with normal n, |n.x| > |n.y| makes the landing
\* a wall (direction Right when n.x > 0, Left when n.x < 0, on_ceiling
\* untouched) and |n.y| > |n.x| a floor or ceiling (on_ceiling true when
\* n.y > 0, direction untouched).
C8_DominantAxis ==
    IsSome(last.landed) =>
      LET n == Landing.normal
      IN  /\ Abs(n[1]) > Abs(n[2]) =>
               /\ Landing.direction = IF n[1] > 0 THEN Right ELSE Left
               /\ Landing.on_ceiling = Landing.old_on_ceiling
          /\ Abs(n[2]) > Abs(n[1]) =>
               /\ Landing.direction = Landing.old_direction
               /\ n[2] > 0 => Landing.on_ceiling

\* C8: on landing with unit normal n, n.x > 0.5 makes the direction Right
\* and n.x < -0.5 makes it Left, on_ceiling untouched; otherwise the
\* direction is untouched, and on_ceiling becomes true when n.y > 0.5 and is
\* untouched when it is not.
C8_HalfThresholds ==
    IsSome(last.landed) =>
      LET n == Landing.normal
      IN  /\ GtHalf(n[1], n) =>
               /\ Landing.direction = Right
               /\ Landing.on_ceiling = Landing.old_on_ceiling
          /\ GtHalf(-n[1], n) =>
               /\ Landing.direction = Left
               /\ Landing.on_ceiling = Landing.old_on_ceiling
          /\ ~GtHalf(n[1], n) /\ ~GtHalf(-n[1], n) =>
               /\ Landing.direction = Landing.old_direction
               /\ Landing.on_ceiling =
                    (Landing.old_on_ceiling \/ GtHalf(n[2], n))

\* C8: a player facing left has landed with the normal (0.6, -0.8), whose
\* dominant axis is y, and faces right.
C8_SlantedFloorTurnsPlayer ==
    /\ IsSome(last.landed)
    /\ Landing.normal = <<3, -4>>
    /\ Landing.old_direction = Left
    /\ Landing.direction = Right

\* the edge a=(10,0), b=(10,10) of Wall and the edge a=(0,0), b=(10,0) of
\* LShape
WallEdge == [a |-> <<100, 0>>, b |-> <<100, 100>>]
FloorEdge == [a |-> <<0, 0>>, b |-> <<100, 0>>]

\* the last tick moved right, with no vertical motion, and hit WallEdge
\* inside the edge
HitWallMovingRight ==
    /\ HitCollider /\ last.collider = "tile_map_layer"
    /\ last.motion = <<1, 0>>
    /\ last.cposition = <<100, 50>>
    /\ last.cnormal = <<-1, 0>>

\* C9 as stated: a player moving right that collides mid-edge with the
\* edge a=(10,0), b=(10,10) gets the landing normal (-1,0), and after the
\* tick is on the surface and has direction Right.
C9_WallTurnsPlayerRight ==
    HitWallMovingRight =>
      /\ Landing.normal = <<-1, 0>>
      /\ on_surface
      /\ direction = Right

\* C9: a player moving right that collides mid-edge with the edge
\* a=(10,0), b=(10,10), an edge longer than 0.7 of its width, gets the
\* landing normal (-1,0), is on the surface once the collision is handled
\* (and after the tick, unless it jumps on that tick) and has direction
\* Left.
C9_WallTurnsPlayerLeft ==
    (HitWallMovingRight /\ can_land_on_surface(width, WallEdge)) =>
      /\ Landing.normal = <<-1, 0>>
      /\ Landing.on_surface
      /\ last.jumped \/ on_surface
      /\ direction = Left

\* C9: a player that fits on the edge has hit it moving right and rests on
\* it, facing left.
C9_LandedOnWall ==
    /\ HitWallMovingRight /\ can_land_on_surface(width, WallEdge)
    /\ last.surface = Some(LandingSurface(WallEdge.a, WallEdge.b, <<-1, 0>>))
    /\ on_surface /\ direction = Left

\* the last tick fell straight down from the air and hit FloorEdge inside
\* the edge, the engine reporting the normal (0,-1)
HitFloorFalling ==
    /\ HitCollider /\ last.collider = "tile_map_layer" /\ last.airborne
    /\ last.motion = <<0, 1>>
    /\ last.cposition = <<50, 0>>
    /\ last.cnormal = <<0, -1>>

\* the signed distance of the player from the line of FloorEdge, along
\* (0,-1)
HeightAboveFloor ==
    Dot(<<0, -1>>, Sub(get_global_position(position), FloorEdge.a))

\* C10 as stated: an airborne player falling straight down that collides
\* mid-edge with the edge a=(0,0), b=(10,0) gets the landing normal (0,-1);
\* after the tick it is on the surface, not on the ceiling, and at the
\* distance height_above_surface from the edge's line.
C10_LandsFlushOnFloor ==
    HitFloorFalling =>
      /\ Landing.normal = <<0, -1>>
      /\ on_surface /\ ~on_ceiling
      /\ HeightAboveFloor = height_above_surface

\* C10: the same for an edge longer than 0.7 of the player's width.
C10_LandsFlushOnWideEnoughFloor ==
    (HitFloorFalling /\ can_land_on_surface(width, FloorEdge)) =>
      /\ Landing.normal = <<0, -1>>
      /\ on_surface /\ ~on_ceiling
      /\ HeightAboveFloor = height_above_surface

\* C10: a player that fits on the edge has fallen onto it and rests at
\* height_above_surface.
C10_LandedOnFloor ==
    /\ HitFloorFalling /\ can_land_on_surface(width, FloorEdge)
    /\ last.surface = Some(LandingSurface(FloorEdge.a, FloorEdge.b,
                                          <<0, -1>>))
    /\ on_surface
    /\ position[2] = -height_above_surface

\* the player as it was when the handler reported the jump of the last tick
BeforeJump == Get(last.before_jump)

\* C11: when the jump handler reports a strength for a player on a surface,
\* after the tick on_surface and on_ceiling are false, target_velocity is
\* get_jump of the strength, the direction and the on_ceiling held before
\* the jump, and rotation is 0 if the player was not on a ceiling and
\* untouched if it was; when the handler reports no jump the player stays
\* on the surface with target_velocity zero.
C11_JumpLeavesSurface ==
    /\ (Tick /\ last.jumped) =>
         /\ ~on_surface /\ ~on_ceiling
         /\ target_velocity = get_jump(Get(last.strength),
                                       BeforeJump.direction,
                                       BeforeJump.on_ceiling)
         /\ rotation = IF BeforeJump.on_ceiling THEN BeforeJump.rotation
                       ELSE ROTATION_ZERO
    /\ (Tick /\ last.polled /\ ~last.jumped) =>
         on_surface /\ target_velocity = ZERO

\* C11: a player has jumped off a ceiling, keeping its rotation, with a
\* velocity that leads downwards.
C11_JumpedOffCeiling ==
    /\ Tick /\ last.jumped
    /\ BeforeJump.on_ceiling
    /\ rotation # ROTATION_ZERO
    /\ target_velocity[2] > 0

\* the last tick landed inside an edge of the selected surface, and the
\* player is where the landing put it
LandedMidEdge ==
    /\ Tick /\ IsSome(last.surface) /\ ~last.jumped
    /\ last.cposition # Get(last.surface).a

\* what find_shimmy_dest answers for the landed player, in the parent's
\* coordinates
ShimmyDestFound ==
    ToLocal(find_shimmy_dest(Get(last.surface),
                             get_global_position(position), width,
                             height_above_surface))

\* C12 as stated: a mid-edge landing on a surface too narrow for the player
\* sets shimmy_dest, unless the shimmy motion would collide or no
\* destination is found.
C12_NarrowSurfaceStartsShimmy ==
    (/\ LandedMidEdge
     /\ ~can_land_on_surface(width, Get(last.surface))
     /\ IsSome(ShimmyDestFound)
     /\ ~last.blocked) => shimmy_dest = ShimmyDestFound

\* C12: a mid-edge landing on a surface too narrow for the player starts no
\* shimmy; on a surface the player fits on, shimmy_dest is set to what
\* find_shimmy_dest finds, unless the shimmy motion would collide or no
\* destination is found.
C12_FittingSurfaceStartsShimmy ==
    LandedMidEdge =>
      IF can_land_on_surface(width, Get(last.surface))
      THEN shimmy_dest = IF last.blocked THEN None ELSE ShimmyDestFound
      ELSE shimmy_dest = None

\* C12: the player has landed inside an edge it does not fit on, sticking
\* out over the edge's end, and no shimmy was started.
C12_LandedOnNarrowSurface ==
    /\ LandedMidEdge
    /\ ~can_land_on_surface(width, Get(last.surface))
    /\ IsSome(ShimmyDestFound)
    /\ shimmy_dest = None

\* C13: shimmy_dest is only set when would_collide reported no collision
\* for the motion to it: on a landing, at a corner or inside an edge, whose
\* would_collide answers true, shimmy_dest stays absent.
C13_BlockedShimmyIsSkipped ==
    (Tick /\ last.swept) =>
      /\ last.blocked => shimmy_dest = None
      /\ IsSome(shimmy_dest) => IsSome(last.surface) /\ ~last.blocked

\* C13: the player has landed on a corner, the motion along the surface
\* would collide, and no shimmy was started.
C13_CornerShimmyBlocked ==
    /\ Tick /\ IsSome(last.surface) /\ last.blocked
    /\ last.cposition = Get(last.surface).a
    /\ shimmy_dest = None

(***************************************************************************)
(* The functions on their own: each action calls one of them on inputs     *)
(* drawn from small sets and records the call in last; the player is out   *)
(* of the tree and keeps its fields.                                       *)
(***************************************************************************)
Call(op, args, result) == [op |-> op, args |-> args, result |-> result]

FnInit ==
    /\ position = ZERO /\ target_velocity = ZERO /\ direction = Left
    /\ rotation = ROTATION_ZERO
    /\ on_surface = FALSE /\ on_ceiling = FALSE
    /\ shimmy_dest = None
    /\ max_jump_strength = 1000
    /\ fall_acceleration = 60000
    /\ shimmy_speed = 750
    /\ scene = [parent |-> ZERO, size |-> <<40, 20>>, safe_margin |-> 1,
                delta_ms |-> 16]
    /\ length_of_jump_press_ms = None
    /\ max_time_ms = 32
    /\ max_jump_strength_for_testing = Ratio(1, 1)
    /\ wait_for_next_press = FALSE
    /\ jump_meter = [visible |-> TRUE, ratio |-> Ratio(0, 1)]
    /\ is_ready = FALSE
    /\ jumps = 0
    /\ NoWorld
    /\ last = Call("init", <<>>, None)

\* A call is made when no call is on record, and leaves the player alone.
FnIdle ==
    /\ last.op = "init"
    /\ UNCHANGED <<player_vars, config_vars, handler_vars, is_ready, jumps,
                   world_vars>>

\* The record of the last call is dropped.
FnReturn ==
    /\ last.op # "init"
    /\ last' = Call("init", <<>>, None)
    /\ UNCHANGED <<player_vars, config_vars, handler_vars, is_ready, jumps,
                   world_vars>>

\* The inputs: polygons, points on and off them, motions, widths.
FnPolygons == {LShape, Wall, Block}
FnPoints == { <<50, 0>>, <<100, 50>>, <<100, 0>>, <<200, 100>>,
              <<50, -30>> }
FnMotions == { ZERO, <<0, 1>>, <<0, -1>>, <<1, 0>>, <<1, 1>> }
FnWidths == {40, 160}
FnGlobalPositions == { <<20, -11>>, <<90, -11>>, <<89, 90>> }

CallPickSide ==
    \E points \in FnPolygons, collision_position \in FnPoints,
       player_motion \in FnMotions, collision_normal \in RawNormals,
       w \in FnWidths, global_position \in FnGlobalPositions :
      /\ FnIdle
      /\ last' = Call("pick_side_to_land_on",
                      [points |-> points,
                       collision_position |-> collision_position,
                       player_motion |-> player_motion,
                       collision_normal |-> collision_normal,
                       width |-> w, global_position |-> global_position],
                      pick_side_to_land_on(points, collision_position,
                          player_motion, collision_normal, w,
                          global_position))

CallPickCorner ==
    \E points \in FnPolygons, player_motion \in FnMotions,
       collision_normal \in RawNormals, w \in FnWidths :
    \E index \in 1..Len(points) :
      /\ FnIdle
      /\ last' = Call("pick_side_to_land_on_from_corner",
                      [points |-> points, index |-> index,
                       player_motion |-> player_motion,
                       collision_normal |-> collision_normal,
                       width |-> w],
                      pick_side_to_land_on_from_corner(points, index,
                          player_motion, collision_normal, w))

\* The segments correct_normal is tried on: the edges of the polygons, with
\* a normal to either side.
FnSurfaces ==
    UNION {{LandingSurface(q[i], q[next_point(q, i)], n) :
              n \in {Get(TryNormalized(Orthogonal(
                                           Sub(q[i], q[next_point(q, i)])))),
                     Neg(Get(TryNormalized(Orthogonal(
                                           Sub(q[i], q[next_point(q, i)])))))}}
           : <<q, i>> \in {<<q, i>> \in FnPolygons \X (1..6) :
                               i <= Len(q)}}

CallCorrectNormal ==
    \E s \in FnSurfaces, polygon \in FnPolygons :
      /\ FnIdle
      /\ last' = Call("correct_normal", [s |-> s, polygon |-> polygon],
                      correct_normal(s, polygon))

(***************************************************************************)
(* player.rs: smooth_polygon                                               *)
(***************************************************************************)
\* tan(0.05), the tangent of the tolerance of math::same_normals_approx
SAME_NORMALS_TAN_NUM == 60
SAME_NORMALS_TAN_DEN == 1199

Cross(u, v) == u[1] * v[2] - u[2] * v[1]

\* math::same_normals_approx: |n1.angle_to(n2)| < 0.05, where angle_to is
\* atan2(cross, dot); the lengths of n1 and n2 cancel.
same_normals_approx(n1, n2) ==
    /\ Dot(n1, n2) > 0
    /\ Abs(Cross(n1, n2)) * SAME_NORMALS_TAN_DEN
         < SAME_NORMALS_TAN_NUM * Dot(n1, n2)

\* remove_points: the polygon without the points at the indices on the stack
remove_points(polygon, stack) ==
    LET keep == {i \in 1..Len(polygon) : i \notin stack}
    IN  [k \in 1..Cardinality(keep) |->
           polygon[CHOOSE i \in keep :
                      Cardinality({j \in keep : j < i}) = k - 1]]

\* The first pass: every point less than one away from the point before it.
ClosePoints(polygon) ==
    {next_point(polygon, i) :
       i \in {i \in 1..Len(polygon) :
                DistSq(polygon[i], polygon[next_point(polygon, i)])
                  < squared(ONE)}}

\* Both segments at a point have a normal, and about the same one.
SameNormalsAt(polygon, i, i2, i3) ==
    /\ IsSome(find_surface(polygon, i, i2))
    /\ IsSome(find_surface(polygon, i2, i3))
    /\ same_normals_approx(Get(find_surface(polygon, i, i2)).normal,
                           Get(find_surface(polygon, i2, i3)).normal)

\* The second pass: every point between two segments of the same normal.
SameNormalPoints(polygon) ==
    {next_point(polygon, i) :
       i \in {i \in 1..Len(polygon) :
                SameNormalsAt(polygon, i, next_point(polygon, i),
                    next_point(polygon, next_point(polygon, i)))}}

CombineSegments(polygon) == remove_points(polygon, SameNormalPoints(polygon))

smooth_polygon(polygon) ==
    CombineSegments(remove_points(polygon, ClosePoints(polygon)))

\* Polygons as the tiles give them: an intermediate point on a side, two
\* points next to each other, three points next to each other, and a
\* polygon whose first point is next to its last.
FnRawPolygons ==
    { << <<0, 0>>, <<50, 0>>, <<100, 0>>, <<100, 100>>, <<0, 100>> >>,
      << <<0, 0>>, <<100, 0>>, <<103, 4>>, <<100, 100>>, <<0, 100>> >>,
      << <<0, 0>>, <<100, 0>>, <<107, 0>>, <<96, 5>>, <<100, 100>>,
         <<0, 100>> >>,
      << <<3, 0>>, <<100, 0>>, <<100, 100>>, <<0, 100>>, <<0, 4>> >>,
      << <<0, 0>>, <<100, 0>>, <<100, 50>>, <<102, 100>>, <<0, 100>> >>,
      Block, LShape }

CallSmoothPolygon ==
    \E polygon \in FnRawPolygons :
      /\ FnIdle
      /\ last' = Call("smooth_polygon", [polygon |-> polygon],
                      smooth_polygon(polygon))

\* The vector whose components are not numbers.
NAN == <<"NaN", "NaN">>

\* What math::normal can return.  For a = b the segment's orthogonal is the
\* zero vector and Vector2::project divides 0 by 0: the projection is the
\* vector of NaNs, and whether try_normalized refuses it (None) or scales it
\* (it stays NaN) is left to the vector library the build links.
NormalResults(a, b, player_motion) ==
    IF Orthogonal(Sub(b, a)) = ZERO
    THEN {None, Some(NAN)}
    ELSE {normal(a, b, player_motion)}

FnEnds == { <<0, 0>>, <<100, 0>>, <<100, 100>>, <<0, 30>>, <<50, -30>> }
FnNormalMotions == FnMotions \cup { <<-3, 2>>, <<10, 3>>, <<-1, 0>>, <<1, -1>> }

CallNormal ==
    \E a \in FnEnds, b \in FnEnds, player_motion \in FnNormalMotions :
    \E result \in NormalResults(a, b, player_motion) :
      /\ FnIdle
      /\ last' = Call("normal",
                      [a |-> a, b |-> b, player_motion |-> player_motion],
                      result)

(***************************************************************************)
(* player.rs: get_collider_points_from_tile_map_layer.  The layer sits at  *)
(* the origin, so local and global coordinates agree.  A layer maps map    *)
(* coordinates to tile data: the sequence of the tile's collision          *)
(* polygons, in coordinates around the tile's centre.  The collision       *)
(* polygons of the tiles are rectangles; a polygon in global coordinates   *)
(* is kept as the set of the rectangles it is the union of.                *)
(***************************************************************************)
half_tile_width == 80

LEFT == <<-1, 0>>
RIGHT == <<1, 0>>
UP == <<0, -1>>
DOWN == <<0, 1>>

\* TileMapLayer::map_to_local: the centre of the tile
map_to_local(c) ==
    <<c[1] * 2 * half_tile_width + half_tile_width,
      c[2] * 2 * half_tile_width + half_tile_width>>

\* TileMapLayer::local_to_map: the tile a point is in
local_to_map(q) ==
    <<q[1] \div (2 * half_tile_width), q[2] \div (2 * half_tile_width)>>

\* TileMapLayer::get_cell_tile_data
get_cell_tile_data(layer, c) == IF c \in DOMAIN layer THEN Some(layer[c]) ELSE None

\* The directions of the tile edges that an edge of the polygon lies on.
EdgeDirections(points) ==
    UNION {
      (IF points[i][1] = points[next_point(points, i)][1]
       THEN IF points[i][1] = half_tile_width THEN {RIGHT}
            ELSE IF points[i][1] = -half_tile_width THEN {LEFT} ELSE {}
       ELSE {})
      \cup
      (IF points[i][2] = points[next_point(points, i)][2]
       THEN IF points[i][2] = half_tile_width THEN {DOWN}
            ELSE IF points[i][2] = -half_tile_width THEN {UP} ELSE {}
       ELSE {})
      : i \in 1..Len(points)}

\* The direction of the tile edge that the collision lies on.
CollisionDirections(local_collision, local_tile_center) ==
    IF local_collision[1] = local_tile_center[1] - half_tile_width
    THEN {LEFT}
    ELSE IF local_collision[2] = local_tile_center[2] - half_tile_width
    THEN {UP}
    ELSE IF local_collision[1] = local_tile_center[1] + half_tile_width
    THEN {RIGHT}
    ELSE IF local_collision[2] = local_tile_center[2] + half_tile_width
    THEN {DOWN}
    ELSE {}

\* the tile's polygon moved to global coordinates
ToGlobalPoints(local_tile_center, points) ==
    [i \in 1..Len(points) |-> Add(local_tile_center, points[i])]

\* the overlap of two rectangles along an axis
Overlap(p, q, axis) ==
    LET lo(r) == CHOOSE v \in {r[i][axis] : i \in 1..Len(r)} :
                    \A i \in 1..Len(r) : v <= r[i][axis]
        hi(r) == CHOOSE v \in {r[i][axis] : i \in 1..Len(r)} :
                    \A i \in 1..Len(r) : v >= r[i][axis]
    IN  Min(hi(p), hi(q)) - (IF lo(p) > lo(q) THEN lo(p) ELSE lo(q))

\* two rectangles share more than a corner
RectsTouch(p, q) ==
    \/ Overlap(p, q, 1) > 0 /\ Overlap(p, q, 2) >= 0
    \/ Overlap(p, q, 1) >= 0 /\ Overlap(p, q, 2) > 0

\* Geometry2D::merge_polygons: the union, as an array of polygons
merge_polygons(a, b) ==
    IF \E p \in a, q \in b : RectsTouch(p, q)
    THEN << a \cup b >>
    ELSE << a, b >>

\* A merge that takes whatever comes first in the array.
MergedWithFirst(next_points, points) == merge_polygons(next_points, points)[1]

\* points_so_far after the merge with a neighbour's polygon
Merged(next_points, points) ==
    IF Len(merge_polygons(next_points, points)) = 1
    THEN merge_polygons(next_points, points)[1]
    ELSE points

RECURSIVE get_collider_points_from_tile_map_layer(_, _, _, _, _)
RECURSIVE AddDirections(_, _, _, _, _, _, _)

\* what a call hands back to the loop over the directions: the neighbour's
\* coordinates are on record, with the collision the call was given and
\* with what the merge did
Fetched(acc, next_map_coord, given, sub) ==
    [acc EXCEPT
       !.fetched = Append(@, [coord |-> next_map_coord,
                              local_collision |-> given]) \o sub.fetched,
       !.depth = IF sub.depth > @ THEN sub.depth ELSE @]

\* A loop whose calls pass the collision on, three levels deep.
AddDirectionsWithCollision(layer, map_coordinates, local_collision, order, nesting, offsets, acc) ==
    IF offsets = <<>> \/ nesting >= 3 THEN acc
    ELSE
      LET next_map_coord == Add(map_coordinates, Head(offsets))
          sub == get_collider_points_from_tile_map_layer(layer,
                     next_map_coord, local_collision, order, nesting + 1)
          acc1 == Fetched(acc, next_map_coord, local_collision, sub)
      IN  AddDirections(layer, map_coordinates, local_collision, order,
                        nesting, Tail(offsets), acc1)

\* for offset in directions_to_add: offsets holds the directions still to
\* come, acc the points so far and the record of the calls
AddDirections(layer, map_coordinates, local_collision, order, nesting, offsets, acc) ==
    IF offsets = <<>> THEN acc
    ELSE
      LET next_map_coord == Add(map_coordinates, Head(offsets))
          sub == get_collider_points_from_tile_map_layer(layer,
                     next_map_coord, None, order, nesting + 1)
          acc1 == Fetched(acc, next_map_coord, None, sub)
      IN  IF ~IsSome(sub.points)
          THEN AddDirections(layer, map_coordinates, local_collision, order,
                             nesting, Tail(offsets), acc1)
          ELSE IF ~IsSome(acc.points)
          THEN [acc1 EXCEPT !.points = sub.points]
          ELSE AddDirections(layer, map_coordinates, local_collision, order,
                   nesting, Tail(offsets),
                   [acc1 EXCEPT
                      !.points = Some(Merged(Get(sub.points),
                                             Get(acc.points))),
                      !.merges = Append(@,
                          [next_points |-> Get(sub.points),
                           points |-> Get(acc.points),
                           after |-> Merged(Get(sub.points),
                                            Get(acc.points))])])

\* the directions of the set, in the order the HashSet iterates them
InOrder(order, directions) == SelectSeq(order, LAMBDA d : d \in directions)

\* get_collider_points_from_tile_map_layer, with the nesting of the call (0
\* for the first): [points, marked, fetched, merges, depth]
get_collider_points_from_tile_map_layer(layer, map_coordinates, local_collision, order, nesting) ==
    LET local_tile_center == map_to_local(map_coordinates)
        tile_data == get_cell_tile_data(layer, map_coordinates)
        polygon == IF IsSome(tile_data) /\ Len(Get(tile_data)) >= 1
                   THEN Some(Get(tile_data)[1]) ELSE None
        directions_to_add ==
            IF IsSome(local_collision)
            THEN (IF IsSome(polygon) THEN EdgeDirections(Get(polygon))
                  ELSE {})
                 \cup CollisionDirections(Get(local_collision),
                                          local_tile_center)
            ELSE {}
        start == [points |-> IF IsSome(polygon)
                             THEN Some({ToGlobalPoints(local_tile_center,
                                                       Get(polygon))})
                             ELSE None,
                  marked |-> directions_to_add,
                  fetched |-> <<>>, merges |-> <<>>, depth |-> nesting]
    IN  IF IsSome(local_collision)
        THEN AddDirections(layer, map_coordinates, local_collision, order,
                           nesting, InOrder(order, directions_to_add), start)
        ELSE start

\* The tiles' collision polygons: the whole tile, its left half, a square
\* in its middle.
FullTile ==
    << <<-80, -80>>, <<80, -80>>, <<80, 80>>, <<-80, 80>> >>
LeftHalfTile ==
    << <<-80, -80>>, <<0, -80>>, <<0, 80>>, <<-80, 80>> >>
IslandTile ==
    << <<-40, -40>>, <<40, -40>>, <<40, 40>>, <<-40, 40>> >>

\* Layers: a block of one tile; a row of two; a tile with a half tile to
\* its right, an island below, a tile without polygons to its left and a
\* tile above.
FnLayers ==
    { (<<0, 0>> :> <<FullTile>>),
      (<<0, 0>> :> <<FullTile>>) @@ (<<1, 0>> :> <<FullTile>>),
      (<<0, 0>> :> <<FullTile>>) @@ (<<1, 0>> :> <<LeftHalfTile>>)
        @@ (<<0, 1>> :> <<IslandTile>>) @@ (<<-1, 0>> :> <<>>)
        @@ (<<0, -1>> :> <<FullTile>>) }

\* Collisions: inside the tile at the origin, on its top edge, at its
\* corners, on its right and bottom edges.
FnCollisions ==
    { <<80, 80>>, <<50, 0>>, <<0, 0>>, <<160, 0>>, <<0, 160>>, <<160, 160>>,
      <<160, 80>>, <<80, 160>> }

FnOrders ==
    { <<LEFT, UP, RIGHT, DOWN>>, <<DOWN, RIGHT, UP, LEFT>>,
      <<RIGHT, DOWN, LEFT, UP>> }

\* get_collider_points: the first call
CallGetColliderPoints ==
    \E layer \in FnLayers, local_collision \in FnCollisions,
       order \in FnOrders :
      /\ FnIdle
      /\ last' = Call("get_collider_points_from_tile_map_layer",
                      [layer |-> layer,
                       map_coordinates |-> local_to_map(local_collision),
                       local_collision |-> local_collision,
                       order |-> order],
                      get_collider_points_from_tile_map_layer(layer,
                          local_to_map(local_collision),
                          Some(local_collision), order, 0))

(***************************************************************************)
(* player.rs: the orientation match of physics_process, on its own.  A     *)
(* unit normal is given by any vector along it.                            *)
(***************************************************************************)
\* The arm of "match normal" that is taken
OrientArm(n) ==
    IF GtHalf(n[1], n) THEN "right"
    ELSE IF GtHalf(-n[1], n) THEN "left"
    ELSE IF GtHalf(n[2], n) THEN "ceiling"
    ELSE IF GtHalf(-n[2], n) THEN "floor"
    ELSE "surprise"

FnNormals == {n \in (-3..3) \X (-3..3) : n # ZERO}

CallOrient ==
    \E n \in FnNormals, dir \in {Left, Right}, ceiling \in BOOLEAN :
      /\ FnIdle
      /\ last' = Call("orient",
                      [normal |-> n, direction |-> dir, on_ceiling |-> ceiling],
                      [arm |-> OrientArm(n),
                       oriented |-> Orient(n, dir, ceiling)])

FnNext ==
    \/ FnReturn \/ CallPickSide \/ CallPickCorner \/ CallCorrectNormal
    \/ CallSmoothPolygon \/ CallNormal \/ CallGetColliderPoints
    \/ CallOrient

FnSpec == FnInit /\ [][FnNext]_vars

\* the edge i of the polygon of the last call, from its first point
EdgeFrom(i) ==
    [a |-> last.args.points[i],
     b |-> last.args.points[next_point(last.args.points, i)]]

\* the edge i of the polygon of the last call, back to the point before it
EdgeBack(i) ==
    [a |-> last.args.points[i],
     b |-> last.args.points[prior_point(last.args.points, i)]]

\* the edge i has a normal against the motion and was hit by the collision
EdgeIsHit(i) ==
    /\ IsSome(normal(EdgeFrom(i).a, EdgeFrom(i).b, last.args.player_motion))
    /\ hit_by(LandingSurface(EdgeFrom(i).a, EdgeFrom(i).b,
                  Get(normal(EdgeFrom(i).a, EdgeFrom(i).b,
                             last.args.player_motion))),
              last.args.collision_position, last.args.collision_normal)

Fits(edge) == can_land_on_surface(last.args.width, edge)

SameEdge(surface, edge) == surface.a = edge.a /\ surface.b = edge.b

\* the result of the last call is what the claim says for the hit edge i
PicksFor(i, result) ==
    LET hit == EdgeFrom(i)
        next == EdgeFrom(next_point(last.args.points, i))
        prior == EdgeBack(i)
        gp == last.args.global_position
    IN  /\ IsSome(result)
        /\ IF Fits(hit) \/ (~Fits(next) /\ ~Fits(prior))
           THEN /\ SameEdge(Get(result), hit)
                /\ Get(result).normal
                     = Get(normal(hit.a, hit.b, last.args.player_motion))
           ELSE IF Fits(next) /\ Fits(prior)
           THEN /\ DistSq(gp, next.a) < DistSq(gp, prior.a)
                     => SameEdge(Get(result), next)
                /\ DistSq(gp, prior.a) < DistSq(gp, next.a)
                     => SameEdge(Get(result), prior)
           ELSE IF Fits(next) THEN SameEdge(Get(result), next)
           ELSE SameEdge(Get(result), prior)

\* C14: pick_side_to_land_on decides on the first edge, in index order,
\* that has a normal and is hit by the collision: it returns that edge if
\* the player fits on it, else the one neighbour the player fits on, else
\* of two such neighbours the one whose corner a is nearer to the player,
\* else the hit edge itself; it returns None only when no edge is hit.
C14_PicksHitEdgeOrNeighbour ==
    last.op = "pick_side_to_land_on" =>
      LET hits == {i \in 1..Len(last.args.points) : EdgeIsHit(i)}
      IN  IF hits = {} THEN last.result = None
          ELSE PicksFor(CHOOSE i \in hits : \A j \in hits : i <= j,
                        last.result)

\* C14: the hit edge is too short for the player, both its neighbours are
\* long enough, and the nearer of them was returned.
C14_PickedNearerNeighbour ==
    /\ last.op = "pick_side_to_land_on"
    /\ last.args.points = Wall /\ EdgeIsHit(1)
    /\ ~Fits(EdgeFrom(1)) /\ Fits(EdgeFrom(2)) /\ Fits(EdgeBack(1))
    /\ DistSq(last.args.global_position, EdgeFrom(2).a)
         < DistSq(last.args.global_position, EdgeBack(1).a)
    /\ SameEdge(Get(last.result), EdgeFrom(2))

\* the normal of an edge against the motion of the last call
NormalOf(edge) == normal(edge.a, edge.b, last.args.player_motion)

\* the first of the two edges, in this order, that the player fits on, with
\* its normal corrected against the polygon
FirstFitting(first, second) ==
    IF Fits(first)
    THEN Some(correct_normal(LandingSurface(first.a, first.b,
                                            Get(NormalOf(first))),
                             last.args.points))
    ELSE IF Fits(second)
    THEN Some(correct_normal(LandingSurface(second.a, second.b,
                                            Get(NormalOf(second))),
                             last.args.points))
    ELSE None

\* what the claim says of the corner index: the edge whose normal is closer
\* to the collision's goes first
CornerPick(prior, next) ==
    IF Dot(Get(NormalOf(next)), last.args.collision_normal)
           * ILen100(Get(NormalOf(prior)))
         > Dot(Get(NormalOf(prior)), last.args.collision_normal)
           * ILen100(Get(NormalOf(next)))
    THEN FirstFitting(next, prior)
    ELSE FirstFitting(prior, next)

CornerCall == last.op = "pick_side_to_land_on_from_corner"

\* C15: for a hit vertex and a non-zero motion,
\* pick_side_to_land_on_from_corner tries the prior and the next edge at the
\* vertex, the one whose normal has the larger dot product with the
\* collision normal first, and returns the first that the player fits on,
\* with its normal corrected and with a the hit vertex, or None when the
\* player fits on neither.
C15_CornerPicksCloserNormal ==
    (CornerCall /\ last.args.player_motion # ZERO) =>
      /\ ~last.result.panic
      /\ IsSome(NormalOf(EdgeBack(last.args.index)))
      /\ IsSome(NormalOf(EdgeFrom(last.args.index)))
      /\ last.result.surface = CornerPick(EdgeBack(last.args.index),
                                          EdgeFrom(last.args.index))
      /\ IsSome(last.result.surface) =>
           Get(last.result.surface).a
             = last.args.points[last.args.index]

\* C15: the function was called with a motion parallel to an edge at the
\* vertex and returned nothing: it panicked.
C15_CornerCallPanicked ==
    /\ CornerCall /\ last.args.player_motion # ZERO
    /\ last.result.panic

\* the last tick did not move the player and its sweep reported a collision
\* at a vertex of a tile's polygon
ZeroMotionCornerHit ==
    /\ HitCollider /\ last.collider = "tile_map_layer"
    /\ last.motion = ZERO
    /\ \E t \in TileHits : IsSome(Find(Get(t.points), last.cposition))

\* C16: with zero motion at a corner hit the selection returns None without
\* building a candidate edge (it cannot panic); the player lands with the
\* raw collision normal, its position is not adjusted and no shimmy is
\* started.
C16_ZeroMotionLandsInPlace ==
    [][ZeroMotionCornerHit' =>
          /\ ~last'.panicked
          /\ last'.surface = None
          /\ IsSome(last'.landed)
          /\ Get(last'.landed).normal = last'.cnormal
          /\ Get(last'.landed).on_surface
          /\ shimmy_dest' = None
          /\ last'.jumped \/ (/\ position' = position
                              /\ rotation' = RotationFor(last'.cnormal))
      ]_vars

\* C16: a resting player has hit a corner without moving and stays where it
\* was, on the surface.
C16_RestingPlayerHitCorner ==
    /\ ZeroMotionCornerHit /\ ~last.jumped
    /\ on_surface /\ shimmy_dest = None
    /\ rotation = RotationFor(last.cnormal)

\* the point one unit off the middle of the surface along its normal, which
\* correct_normal tests, doubled
TestPoint(s) == Add(Add(s.a, s.b), Scale(2, Along(s.normal, ONE)))

\* the surface's normal points outside the polygon
PointsOutside(s, polygon) == ~IsPointInPolygon(TestPoint(s), polygon)

\* C17: correct_normal returns a surface whose normal already points
\* outside the polygon unchanged, and correct_normal applied to its own
\* result returns that result, for every surface and polygon.
C17_CorrectNormalIdempotent ==
    last.op = "correct_normal" =>
      /\ PointsOutside(last.args.s, last.args.polygon)
           => last.result = last.args.s
      /\ correct_normal(last.result, last.args.polygon) = last.result

\* C17: correct_normal has turned a normal around, and the result points
\* outside the polygon.
C17_NormalWasCorrected ==
    /\ last.op = "correct_normal"
    /\ last.result.normal = Neg(last.args.s.normal)
    /\ PointsOutside(last.result, last.args.polygon)


(***************************************************************************)
(* C18: smoothing a polygon a second time                                  *)
(***************************************************************************)
SmoothedTwice == smooth_polygon(last.result)

\* C18: running smooth_polygon on the result of smooth_polygon removes no
\* further point and leaves the polygon identical.
C18_SmoothingIdempotent ==
    last.op = "smooth_polygon" => SmoothedTwice = last.result

\* A first run removed a point, and a second run removes another one.
C18_SecondRunRemovesPoint ==
    /\ last.op = "smooth_polygon"
    /\ Len(last.result) < Len(last.args.polygon)
    /\ Len(SmoothedTwice) < Len(last.result)


(***************************************************************************)
(* C19: math::normal                                                       *)
(***************************************************************************)
\* the motion of the last call has a component across its segment
MotionCrossesSegment ==
    Cross(Sub(last.args.b, last.args.a), last.args.player_motion) # 0

\* a unit vector, orthogonal to the segment, that opposes the motion
OpposingUnitNormal(n) ==
    /\ Gcd(Abs(n[1]), Abs(n[2])) = 1
    /\ Dot(n, Sub(last.args.b, last.args.a)) = 0
    /\ Dot(n, last.args.player_motion) < 0

\* C19: for a # b and a motion that is not parallel to the segment, normal
\* returns a unit vector perpendicular to b - a whose dot product with the
\* motion is negative; it returns None when a = b or when the motion has no
\* component perpendicular to the segment (the zero motion included).
C19_NormalOpposesMotion ==
    last.op = "normal" =>
      IF last.args.a # last.args.b /\ MotionCrossesSegment
      THEN IsSome(last.result) /\ OpposingUnitNormal(Get(last.result))
      ELSE last.result = None

\* normal was called on a segment of no length and returned a vector.
C19_DegenerateSegmentGivesNaN ==
    /\ last.op = "normal"
    /\ last.args.a = last.args.b
    /\ IsSome(last.result)


(***************************************************************************)
(* The jump handler on its own: frames call handle_input with the button   *)
(* up or down, for the settings the editor can give it.  The record of     *)
(* the call carries held, the deltas summed since the press was            *)
(* registered, counted apart from length_of_jump_press_ms.                 *)
(***************************************************************************)
HandlerDeltas == {8, 16, 20}
HandlerMaxTimes == {24, 32}
HandlerCaps == {Ratio(1, 1), Ratio(1, 2), Ratio(0, 1)}

HandlerInit ==
    /\ position = ZERO /\ target_velocity = ZERO /\ direction = Left
    /\ rotation = ROTATION_ZERO
    /\ on_surface = FALSE /\ on_ceiling = FALSE
    /\ shimmy_dest = None
    /\ max_jump_strength = 1000
    /\ fall_acceleration = 60000
    /\ shimmy_speed = 750
    /\ scene = [parent |-> ZERO, size |-> <<40, 20>>, safe_margin |-> 1,
                delta_ms |-> 16]
    /\ length_of_jump_press_ms = None
    /\ max_time_ms \in HandlerMaxTimes
    /\ max_jump_strength_for_testing \in HandlerCaps
    /\ jump_meter = [visible |-> FALSE, ratio |-> Ratio(0, 1)]
    /\ is_ready = TRUE
    /\ jumps = 0
    /\ NoWorld
    \* JumpHandler::ready, with the jump action up or down; early records
    \* that the action has been down ever since
    /\ \E jump_pressed \in BOOLEAN :
         /\ wait_for_next_press = check_for_early_jump(jump_pressed, FALSE)
         /\ last = Call("ready", [held |-> None, early |-> jump_pressed],
                        None)

\* the deltas summed so far for a press that is registered and not released
HeldBefore ==
    IF IsSome(last.args.held) /\ ~IsSome(last.result)
    THEN last.args.held ELSE None

\* the same after a call: a press registered by the call starts at 0
HeldAfter(delta_ms, pressed) ==
    IF IsSome(HeldBefore) THEN Some(Get(HeldBefore) + delta_ms)
    ELSE IF pressed THEN Some(0) ELSE None

CallHandleInput ==
    \E delta_ms \in HandlerDeltas :
    \E jump_pressed \in
         IF /\ IsSome(length_of_jump_press_ms)
            /\ Get(length_of_jump_press_ms) + delta_ms >= MaxHold
         THEN {FALSE} ELSE BOOLEAN :
    \E h \in {handle_input(delta_ms, jump_pressed, length_of_jump_press_ms,
                  wait_for_next_press, jump_meter, max_time_ms,
                  max_jump_strength_for_testing)} :
      /\ length_of_jump_press_ms' = h.length
      /\ wait_for_next_press' = h.wait
      /\ jump_meter' = h.meter
      /\ last' = Call("handle_input",
                      [delta_ms |-> delta_ms, jump_pressed |-> jump_pressed,
                       early |-> last.args.early /\ jump_pressed,
                       held |-> HeldAfter(delta_ms,
                           is_jump_pressed(jump_pressed,
                               wait_for_next_press).pressed)],
                      h.result)
      /\ UNCHANGED <<player_vars, config_vars, is_ready, jumps, world_vars>>

HandlerNext == CallHandleInput

HandlerSpec == HandlerInit /\ [][HandlerNext]_vars

(***************************************************************************)
(* C20: the strength handle_input returns                                  *)
(***************************************************************************)
RatioLe(r, q) == r[1] * q[2] <= q[1] * r[2]
RatioMin(r, q) == IF RatioLe(r, q) THEN r ELSE q
\* min(1, held / max_time_ms), capped by max_jump_strength_for_testing
HeldStrength(held) ==
    RatioMin(RatioMin(<<1, 1>>, <<held, max_time_ms>>),
             max_jump_strength_for_testing)

\* C20: every strength handle_input returns lies in [0,1] and is at most
\* max_jump_strength_for_testing; it equals min(1, held_ms / max_time_ms)
\* capped by max_jump_strength_for_testing, where held_ms sums the deltas of
\* the calls after the one that registered the press, and it is the full
\* strength the cap allows once held_ms >= max_time_ms.
C20_StrengthIsHeldRatio ==
    (last.op = "handle_input" /\ IsSome(last.result)) =>
      /\ IsSome(last.args.held)
      /\ RatioLe(<<0, 1>>, Get(last.result))
      /\ RatioLe(Get(last.result), <<1, 1>>)
      /\ RatioLe(Get(last.result), max_jump_strength_for_testing)
      /\ RatioLe(Get(last.result), HeldStrength(Get(last.args.held)))
      /\ RatioLe(HeldStrength(Get(last.args.held)), Get(last.result))
      /\ Get(last.args.held) >= max_time_ms =>
           Get(last.result) = max_jump_strength_for_testing

\* The button was held over several frames and released before the meter
\* was full: a strength strictly between 0 and 1 came back.
C20_ReleasedPartStrength ==
    /\ last.op = "handle_input" /\ IsSome(last.result)
    /\ Get(last.args.held) > last.args.delta_ms
    /\ Get(last.args.held) < max_time_ms
    /\ Get(last.result) = Ratio(Get(last.args.held), max_time_ms)
    /\ max_jump_strength_for_testing = Ratio(1, 1)


(***************************************************************************)
(* The player in a scene that sets max_jump_strength_for_testing to 0      *)
(***************************************************************************)
CappedInit ==
    /\ \E info \in PlayerInfos :
         /\ position = info.pos
         /\ target_velocity = info.vel
         /\ direction = info.dir
    /\ rotation = ROTATION_ZERO
    /\ on_surface = FALSE
    /\ on_ceiling = FALSE
    /\ shimmy_dest = None
    /\ max_jump_strength = 1000
    /\ fall_acceleration = 60000
    /\ \E p \in Players, delta \in Deltas :
         /\ shimmy_speed = p.shimmy_speed
         /\ scene = [parent |-> <<0, 0>>, size |-> p.size,
                     safe_margin |-> 1, delta_ms |-> delta]
    /\ length_of_jump_press_ms = None
    /\ max_time_ms = 32
    /\ max_jump_strength_for_testing = Ratio(0, 1)
    /\ wait_for_next_press = FALSE
    /\ jump_meter = [visible |-> TRUE, ratio |-> Ratio(0, 1)]
    /\ is_ready = FALSE
    /\ jumps = 0
    /\ NoWorld
    /\ last = NoStep("init")

CappedSpec == CappedInit /\ [][Next]_vars

(***************************************************************************)
(* C21: a player that cannot jump                                          *)
(***************************************************************************)
\* a tick of a player on a surface that polled the jump handler
PolledOnSurface ==
    /\ on_surface
    /\ last'.op = "physics_process" /\ last'.polled

\* C21: with max_jump_strength_for_testing = 0, no press and release of
\* the jump button makes a player that is on a surface leave it: on_surface
\* stays true and no jump is launched.
C21_CappedPlayerCannotJump ==
    [][(max_jump_strength_for_testing = Ratio(0, 1) /\ PolledOnSurface)
         => (on_surface' /\ ~last'.jumped)]_vars

\* The button was released: a jump of strength 0 took the player off the
\* ceiling it was hanging from.
C21_ZeroStrengthJumpOffCeiling ==
    /\ max_jump_strength_for_testing = Ratio(0, 1)
    /\ last.jumped /\ last.strength = Some(Ratio(0, 1))
    /\ Get(last.before_jump).on_ceiling
    /\ ~on_surface /\ ~on_ceiling /\ target_velocity = ZERO


OppositeTestPoint(s) == Add(Add(s.a, s.b), Scale(-2, Along(s.normal, ONE)))

\* midpoint + normal is inside the polygon and midpoint - normal is not
OnlyNormalSideInside(s, polygon) ==
    /\ IsPointInPolygon(TestPoint(s), polygon)
    /\ ~IsPointInPolygon(OppositeTestPoint(s), polygon)

\* C23: correct_normal flips the normal exactly when the test point
\* midpoint + normal is inside the polygon and the opposite test point
\* midpoint - normal is not; with both inside, or the first outside, it
\* returns the surface as it was; a and b never change.
C23_FlipsExactlyWhenOnlyNormalSideInside ==
    last.op = "correct_normal" =>
      /\ last.result.a = last.args.s.a /\ last.result.b = last.args.s.b
      /\ last.result.normal =
           IF OnlyNormalSideInside(last.args.s, last.args.polygon)
           THEN Neg(last.args.s.normal)
           ELSE last.args.s.normal

\* Both test points were inside the polygon and the normal was kept.
C23_BothTestPointsInside ==
    /\ last.op = "correct_normal"
    /\ IsPointInPolygon(TestPoint(last.args.s), last.args.polygon)
    /\ IsPointInPolygon(OppositeTestPoint(last.args.s), last.args.polygon)
    /\ last.result = last.args.s


(***************************************************************************)
(* C24: adjacent points of a smoothed polygon                              *)
(***************************************************************************)
\* the points i of the polygon that are less than one away from the next
NearlyDuplicate(polygon) ==
    {i \in 1..Len(polygon) :
       DistSq(polygon[i], polygon[next_point(polygon, i)]) < squared(ONE)}

\* C24: after smooth_polygon no two cyclically adjacent points of the
\* polygon are nearly duplicate (squared distance < 1.0), so every edge
\* between adjacent points has a length.
C24_NoNearlyDuplicateNeighbours ==
    last.op = "smooth_polygon" => NearlyDuplicate(last.result) = {}

\* A smoothed polygon that still holds two neighbours less than one apart,
\* of which the call removed neither.
C24_NeighboursLeftClose ==
    /\ last.op = "smooth_polygon"
    /\ \E i \in NearlyDuplicate(last.result) :
         /\ IsSome(Find(last.args.polygon, last.result[i]))
         /\ last.result[i] # last.result[next_point(last.result, i)]


(***************************************************************************)
(* C25: the tile boundaries a collision lies on                            *)
(***************************************************************************)
\* the collision of the last call lies on the side d of its tile
OnTileBoundary(d) ==
    LET c == map_to_local(last.args.map_coordinates)
        q == last.args.local_collision
    IN  \/ d = LEFT /\ q[1] = c[1] - half_tile_width
        \/ d = RIGHT /\ q[1] = c[1] + half_tile_width
        \/ d = UP /\ q[2] = c[2] - half_tile_width
        \/ d = DOWN /\ q[2] = c[2] + half_tile_width

\* C25: in the first call, every side of the tile on whose boundary the
\* local collision point exactly lies is marked for extension; a point on a
\* tile corner marks both boundaries it lies on.
C25_MarksEveryBoundaryOfCollision ==
    last.op = "get_collider_points_from_tile_map_layer" =>
      \A d \in {LEFT, UP, RIGHT, DOWN} :
         OnTileBoundary(d) => d \in last.result.marked

\* A collision on the corner of a tile without a polygon marked one
\* direction, and the polygon of the tile above was not found.
C25_CornerMarksOneDirection ==
    /\ last.op = "get_collider_points_from_tile_map_layer"
    /\ OnTileBoundary(LEFT) /\ OnTileBoundary(UP)
    /\ last.result.marked = {LEFT}
    /\ IsSome(get_cell_tile_data(last.args.layer,
                                 Add(last.args.map_coordinates, UP)))
    /\ last.result.points = None


(***************************************************************************)
(* C26: the recursion of the polygon acquisition                           *)
(***************************************************************************)
\* C26: get_collider_points_from_tile_map_layer recurses only from the
\* first call and always with local_collision absent: no call is more than
\* one level below the first, and at most four neighbour tiles are fetched.
C26_RecursesOneLevel ==
    last.op = "get_collider_points_from_tile_map_layer" =>
      /\ last.result.depth <= 1
      /\ Len(last.result.fetched) <= 4
      /\ \A k \in 1..Len(last.result.fetched) :
           last.result.fetched[k].local_collision = None

\* All four neighbours of a tile were fetched.
C26_FetchedFourNeighbours ==
    /\ last.op = "get_collider_points_from_tile_map_layer"
    /\ Len(last.result.fetched) = 4
    /\ last.result.depth = 1

(***************************************************************************)
(* C27: what a merge leaves in points_so_far                               *)
(***************************************************************************)
\* the merge k of the last call gave one polygon
GaveOnePolygon(k) ==
    Len(merge_polygons(last.result.merges[k].next_points,
                       last.result.merges[k].points)) = 1

\* C27: a merge that yields exactly one polygon replaces the current
\* polygon by it before the next direction is processed; any other merge
\* leaves the current polygon as it was.
C27_MergeReplacesOnlyWhenOnePolygon ==
    last.op = "get_collider_points_from_tile_map_layer" =>
      \A k \in 1..Len(last.result.merges) :
        /\ last.result.merges[k].after =
             IF GaveOnePolygon(k)
             THEN merge_polygons(last.result.merges[k].next_points,
                                 last.result.merges[k].points)[1]
             ELSE last.result.merges[k].points
        /\ IF k < Len(last.result.merges)
           THEN last.result.merges[k + 1].points
                  = last.result.merges[k].after
           ELSE last.result.points = Some(last.result.merges[k].after)

\* One neighbour's polygon was apart and dropped, another was merged.
C27_KeptAfterDisjointMerge ==
    /\ last.op = "get_collider_points_from_tile_map_layer"
    /\ \E k \in 1..Len(last.result.merges) :
         /\ ~GaveOnePolygon(k)
         /\ last.result.merges[k].after = last.result.merges[k].points
    /\ \E k \in 1..Len(last.result.merges) : GaveOnePolygon(k)


(***************************************************************************)
(* level.rs, fly.rs, dragon_fly.rs: the prey of a level.  The player is    *)
(* left out of these steps and keeps its fields.                           *)
(***************************************************************************)
\* A level has at most this many nodes in the group "prey".
MaxPrey == 5

ParkedPlayer ==
    /\ position = ZERO /\ target_velocity = ZERO /\ direction = Left
    /\ rotation = ROTATION_ZERO
    /\ on_surface = FALSE /\ on_ceiling = FALSE
    /\ shimmy_dest = None
    /\ max_jump_strength = 1000
    /\ fall_acceleration = 60000
    /\ shimmy_speed = 750
    /\ scene = [parent |-> ZERO, size |-> <<40, 20>>, safe_margin |-> 1,
                delta_ms |-> 16]
    /\ length_of_jump_press_ms = None
    /\ max_time_ms = 32
    /\ max_jump_strength_for_testing = Ratio(1, 1)
    /\ wait_for_next_press = FALSE
    /\ jump_meter = [visible |-> FALSE, ratio |-> Ratio(0, 1)]
    /\ is_ready = TRUE
    /\ jumps = 0

\* Level::init and Level::ready, in a scene with n prey
LevelSpecInit ==
    /\ ParkedPlayer
    /\ \E n \in 1..MaxPrey : level = LevelInit(1..n)
    /\ alligator = AlligatorInit
    /\ bodies = <<>>
    /\ pending = {}
    /\ last = Call("ready", <<>>, None)

\* A handler that counts the prey that are not queued for removal.
on_prey_eaten_counting_live(l) ==
    IF Cardinality(l.prey \ l.queued) <= 1
    THEN [l EXCEPT !.state = "Won"]
    ELSE l

\* Level::on_prey_eaten: get_nodes_in_group("prey") holds every prey that is
\* in the tree, the ones queued for removal included.
on_prey_eaten(l) ==
    IF Cardinality(l.prey) <= 1
    THEN [l EXCEPT !.state = "Won"]
    ELSE l

\* Fly::on_body_entered, DragonFly::on_body_entered for the player's body:
\* queue_free, then the eaten signal, which calls Level::on_prey_eaten
\* before emit_signal returns.
PreyBodyEntered ==
    \E p \in level.prey \ level.queued :
      /\ level' = on_prey_eaten([level EXCEPT !.queued = @ \cup {p},
                                              !.eaten = @ \cup {p}])
      /\ last' = Call("on_body_entered", [prey |-> p,
                                          in_tree |-> level.prey,
                                          queued |-> level.queued], None)
      /\ UNCHANGED <<player_vars, config_vars, handler_vars, is_ready, jumps,
                     alligator, bodies, pending>>

\* The frame ends: the nodes queued for removal leave the tree.
EndOfFrame ==
    /\ level.queued # {}
    /\ level' = [level EXCEPT !.prey = @ \ level.queued, !.queued = {}]
    /\ last' = Call("end_of_frame", <<>>, None)
    /\ UNCHANGED <<player_vars, config_vars, handler_vars, is_ready, jumps,
                   alligator, bodies, pending>>

LevelNext == PreyBodyEntered \/ EndOfFrame

LevelSpec == LevelSpecInit /\ [][LevelNext]_vars

(***************************************************************************)
(* C28: the last prey                                                      *)
(***************************************************************************)
\* C28: once every prey node has emitted its eaten signal the level is
\* Won, whatever the timing of the signals, two prey eaten before either
\* queued removal has taken effect included.
C28_AllPreyEatenWins ==
    (level.all # {} /\ level.eaten = level.all) => level.state = "Won"

\* Two prey were eaten within a frame; every prey has been eaten and
\* removed, and the level is still Playing.
C28_NoPreyLeftStillPlaying ==
    /\ level.all # {} /\ level.eaten = level.all
    /\ level.prey = {} /\ level.queued = {}
    /\ level.state = "Playing"


(***************************************************************************)
(* alligator.rs: the alligator and the bodies its three Area2Ds detect.    *)
(* The eat area lies inside the open-jaw area, which lies inside the focus *)
(* area, so a body is in one of four zones.  Angles are in thousandths of  *)
(* a degree; a body's x is relative to the alligator.                      *)
(***************************************************************************)
Bodies == {"P", "Q"}

XOffsets == {-30, 0, 40}

Zones == 0..3

AreasOf(zone) ==
    CASE zone = 0 -> {}
      [] zone = 1 -> {"focus"}
      [] zone = 2 -> {"focus", "open_jaw"}
      [] zone = 3 -> {"focus", "open_jaw", "eat"}

\* State::Focus, State::OpeningJaw, State::ClosingJaw
Focus(player) == [name |-> "Focus", player |-> player]

OpeningJaw(player, sub_state) ==
    [name |-> "OpeningJaw", player |-> player, sub_state |-> sub_state]

ClosingJaw(player) == [name |-> "ClosingJaw", player |-> player]

\* Alligator::init: jaw_close_speed, degrees per second
jaw_close_speed == 512

\* Area2D::overlaps_body: the area's own list of bodies, which changes when
\* the area's signal for the body is sent.
overlaps_body(bs, area, body) == bs[body].in_tree /\ area \in bs[body].seen

close_jaw(a) == [a EXCEPT !.jaw = 0]

face_player(a, bs, player) ==
    LET d == bs[player].x IN
      IF d < 0 THEN [a EXCEPT !.scale = 1]
      ELSE IF d > 0 THEN [a EXCEPT !.scale = -1]
      ELSE a

on_player_entered_focus_area(a, bs, body) ==
    IF a.state = Idle THEN [a EXCEPT !.state = Focus(body)] ELSE a

\* A handler that leaves the state alone.
on_player_exited_focus_area_ignored(a, bs, body) == a

on_player_exited_focus_area(a, bs, body) ==
    close_jaw([a EXCEPT !.state = Idle])

on_player_entered_open_jaw_area(a, bs, body) ==
    IF overlaps_body(bs, "eat", body)
    THEN a
    ELSE [a EXCEPT !.state = OpeningJaw(body, "BrandNew")]

on_player_exited_open_jaw_area(a, bs, body) ==
    IF a.state.name = "OpeningJaw"
    THEN close_jaw([a EXCEPT !.state =
                      IF overlaps_body(bs, "focus", a.state.player)
                      THEN Focus(a.state.player)
                      ELSE Idle])
    ELSE a

\* A jaw that opens and is not told to close.
open_and_keep_jaw(a, player) ==
    [a EXCEPT !.state = OpeningJaw(player, "BrandNew")]

open_then_close_jaw(a, player) ==
    [a EXCEPT !.state = OpeningJaw(player, "SwitchToClose")]

on_player_entered_eat_area(a, bs, body) ==
    CASE a.state.name = "Idle" -> open_then_close_jaw(a, body)
      [] a.state.name = "Focus" -> open_then_close_jaw(a, body)
      [] a.state.name = "OpeningJaw" ->
           (CASE a.state.sub_state = "SwitchToClose" -> a
              [] a.state.sub_state = "BrandNew" -> open_then_close_jaw(a, body)
              [] a.state.sub_state = "ProcessedAFrame" ->
                   [a EXCEPT !.state = ClosingJaw(body)])
      [] a.state.name = "ClosingJaw" -> a

on_player_exited_eat_area(a, bs, body) ==
    IF a.state.name = "ClosingJaw"
    THEN IF overlaps_body(bs, "open_jaw", a.state.player)
         THEN [a EXCEPT !.state = OpeningJaw(a.state.player, "ProcessedAFrame")]
         ELSE IF overlaps_body(bs, "focus", a.state.player)
         THEN close_jaw([a EXCEPT !.state = Focus(a.state.player)])
         ELSE close_jaw([a EXCEPT !.state = Idle])
    ELSE a

\* The callables that Alligator::ready connects to the areas' signals.
HandlerName(sig) ==
    "on_player_" \o sig.kind \o "_" \o sig.area \o "_area"

Handle(sig, a, bs) ==
    CASE sig.area = "focus" /\ sig.kind = "entered" ->
           on_player_entered_focus_area(a, bs, sig.body)
      [] sig.area = "focus" /\ sig.kind = "exited" ->
           on_player_exited_focus_area(a, bs, sig.body)
      [] sig.area = "open_jaw" /\ sig.kind = "entered" ->
           on_player_entered_open_jaw_area(a, bs, sig.body)
      [] sig.area = "open_jaw" /\ sig.kind = "exited" ->
           on_player_exited_open_jaw_area(a, bs, sig.body)
      [] sig.area = "eat" /\ sig.kind = "entered" ->
           on_player_entered_eat_area(a, bs, sig.body)
      [] sig.area = "eat" /\ sig.kind = "exited" ->
           on_player_exited_eat_area(a, bs, sig.body)

maxf(x, y) == IF x > y THEN x ELSE y

clampf(v, lo, hi) == Min(maxf(v, lo), hi)

\* Alligator::physics_process, without the player_eaten signal
alligator_physics_process(a, bs, delta_ms) ==
    CASE a.state.name = "Focus" -> face_player(a, bs, a.state.player)
      [] a.state.name = "OpeningJaw" ->
           LET d == Abs(bs[a.state.player].x) IN
             [a EXCEPT !.jaw = (60 - clampf(d, 0, 60)) * 1000,
                       !.state =
                         CASE a.state.sub_state = "SwitchToClose" ->
                                ClosingJaw(a.state.player)
                           [] a.state.sub_state = "BrandNew" ->
                                OpeningJaw(a.state.player, "ProcessedAFrame")
                           [] a.state.sub_state = "ProcessedAFrame" -> a.state]
      [] a.state.name = "ClosingJaw" ->
           LET new_rotation == maxf(0, a.jaw - delta_ms * jaw_close_speed) IN
             [a EXCEPT !.jaw = new_rotation,
                       !.state = IF new_rotation = 0 THEN Idle ELSE @]
      [] a.state.name = "Idle" -> a

\* The alligator and two bodies outside its areas
AlligatorSpecInit ==
    /\ ParkedPlayer
    /\ level = LevelInit({})
    /\ alligator = AlligatorInit
    /\ bodies = [b \in Bodies |->
                   [at |-> 0, x |-> 40, seen |-> {}, in_tree |-> TRUE,
                    moved |-> FALSE, warped |-> FALSE]]
    /\ pending = {}
    /\ last = Call("ready", <<>>, None)

\* The body's move leaves the open-jaw area and the focus area at once
\* while the alligator opens its jaw for it, and it is the only body that
\* moves in this frame.
IsWarp(b, zone) ==
    /\ alligator.state.name = "OpeningJaw"
    /\ alligator.state.player = b
    /\ bodies[b].at = 2 /\ zone = 0
    /\ \A o \in Bodies \ {b} : ~bodies[o].moved

\* The physics step moves a body, once a frame; each area whose overlap
\* with the body changed has a signal to send.
Move ==
    \E b \in Bodies, zone \in Zones, x \in XOffsets :
      /\ bodies[b].in_tree /\ ~bodies[b].moved
      /\ bodies' = [o \in Bodies |->
                      IF o = b
                      THEN [bodies[b] EXCEPT !.at = zone, !.x = x,
                                             !.moved = TRUE,
                                             !.warped = IsWarp(b, zone)]
                      ELSE [bodies[o] EXCEPT !.warped = FALSE]]
      /\ pending' = pending
           \cup {[area |-> ar, kind |-> "entered", body |-> b] :
                   ar \in AreasOf(zone) \ AreasOf(bodies[b].at)}
           \cup {[area |-> ar, kind |-> "exited", body |-> b] :
                   ar \in AreasOf(bodies[b].at) \ AreasOf(zone)}
      /\ last' = Call("move", [body |-> b, before |-> alligator.state], None)
      /\ UNCHANGED <<player_vars, config_vars, handler_vars, is_ready, jumps,
                     level, alligator>>

\* An area sends body_entered or body_exited: its list of bodies changes,
\* then the connected handler runs.  The signals of a frame come in any
\* order.
Deliver ==
    \E sig \in pending :
      \E bs \in {[bodies EXCEPT ![sig.body].seen =
                    IF sig.kind = "entered" THEN @ \cup {sig.area}
                    ELSE @ \ {sig.area}]} :
        /\ bodies' = bs
        /\ pending' = pending \ {sig}
        /\ alligator' = Handle(sig, alligator, bs)
        /\ last' = Call(HandlerName(sig),
                        [body |-> sig.body, before |-> alligator.state], None)
        /\ UNCHANGED <<player_vars, config_vars, handler_vars, is_ready,
                       jumps, level>>

\* Alligator::physics_process, once the signals of the frame are sent.  The
\* handler of player_eaten (Level::on_player_eaten) removes the player from
\* the tree; the alligator is Idle by then, and stays Idle in the exit
\* handlers that the removal calls.
AlligatorPhysicsProcess ==
    /\ pending = {}
    /\ \E a \in {alligator_physics_process(alligator, bodies, scene.delta_ms)} :
         \E eaten \in {IF alligator.state.name = "ClosingJaw" /\ a.state = Idle
                       THEN Some(alligator.state.player) ELSE None} :
           /\ alligator' = a
           /\ bodies' = [o \in Bodies |->
                           IF eaten = Some(o)
                           THEN [bodies[o] EXCEPT !.in_tree = FALSE,
                                                  !.seen = {}, !.at = 0,
                                                  !.moved = FALSE,
                                                  !.warped = FALSE]
                           ELSE [bodies[o] EXCEPT !.moved = FALSE,
                                                  !.warped = FALSE]]
           /\ last' = Call("physics_process",
                           [body |-> eaten, before |-> alligator.state], eaten)
    /\ UNCHANGED <<player_vars, config_vars, handler_vars, is_ready, jumps,
                   level, pending>>

AlligatorNext == Move \/ Deliver \/ AlligatorPhysicsProcess

AlligatorSpec == AlligatorSpecInit /\ [][AlligatorNext]_vars

\* The engine keeps sending the signals it has and keeps calling
\* physics_process.
AlligatorFairSpec ==
    /\ AlligatorSpec
    /\ WF_vars(Deliver)
    /\ WF_vars(AlligatorPhysicsProcess)

(***************************************************************************)
(* C29: one player at a time                                               *)
(***************************************************************************)
EnteredHandlers ==
    {"on_player_entered_focus_area", "on_player_entered_open_jaw_area",
     "on_player_entered_eat_area"}

\* C29: once the alligator is in ClosingJaw for player P, the signal of a
\* different body entering the eat, open-jaw or focus area leaves the state
\* ClosingJaw for P, and the player_eaten signal at the end of that closing
\* carries P.
C29_ClosingJawKeepsItsPlayer ==
    /\ (/\ last.op \in EnteredHandlers
        /\ last.args.before.name = "ClosingJaw"
        /\ last.args.body # last.args.before.player)
       => alligator.state = last.args.before
    /\ (/\ last.op = "physics_process"
        /\ last.result # None)
       => last.result = Some(last.args.before.player)

\* While the jaw closes on P, Q enters the open-jaw area without touching
\* the eat area, and the alligator opens its jaw for Q.
C29_OtherBodyReplacesPlayer ==
    /\ last.op = "on_player_entered_open_jaw_area"
    /\ last.args.before.name = "ClosingJaw"
    /\ last.args.body # last.args.before.player
    /\ alligator.state = OpeningJaw(last.args.body, "BrandNew")
    /\ bodies[last.args.before.player].at = 3

(***************************************************************************)
(* C30: a warp out of the open-jaw area and the focus area                 *)
(***************************************************************************)
Warped == \E b \in Bodies : bodies[b].warped

\* C30: when the player leaves the open-jaw area and the focus area at once
\* while the alligator is in OpeningJaw, then whichever of the two exit
\* signals comes first, the alligator is Idle with the jaw closed once both
\* have come.
C30_WarpEndsIdleJawClosed ==
    (Warped /\ pending = {}) => (alligator.state = Idle /\ alligator.jaw = 0)

\* The open-jaw exit came first and left the alligator in Focus with the
\* jaw open no more; the focus exit came second.
C30_OpenJawExitCameFirst ==
    /\ Warped /\ pending = {}
    /\ last.op = "on_player_exited_focus_area"
    /\ last.args.before.name = "Focus"

(***************************************************************************)
(* C31: the jaw's rotation while it opens                                  *)
(***************************************************************************)
\* A physics tick ran in OpeningJaw; the player it opens for is still in
\* the tree.
TickedOpeningJaw ==
    /\ last.op = "physics_process"
    /\ last.args.before.name = "OpeningJaw"

PlayerDistance == Abs(bodies[last.args.before.player].x)

\* C31: a physics tick in OpeningJaw sets the upper jaw's rotation from the
\* horizontal distance d between player and alligator: 60 degrees at d = 0,
\* closed (0 degrees) once d reaches 38, and always within [0, 60].
C31_JawClosedFromDistance38 ==
    TickedOpeningJaw =>
      /\ alligator.jaw >= 0 /\ alligator.jaw <= 60 * 1000
      /\ PlayerDistance = 0 => alligator.jaw = 60 * 1000
      /\ PlayerDistance >= 38 => alligator.jaw = 0

\* The player is 40 away and the jaw is open by 20 degrees.
C31_JawOpenAtDistance40 ==
    /\ TickedOpeningJaw
    /\ PlayerDistance = 40
    /\ alligator.jaw = 20 * 1000

(***************************************************************************)
(* C32: no jump with a shimmy pending                                      *)
(***************************************************************************)
\* C32: in every state reachable by physics ticks, shimmy_dest is present
\* only while on_surface is true: no jump is launched on the tick that
\* starts a shimmy, nor during a shimmy.
C32_PendingShimmyIsOnSurface == IsSome(shimmy_dest) => on_surface

\* The tick that started a shimmy also polled the jump handler, which
\* registered a press.
C32_ShimmyStartedWithPress ==
    /\ last.op = "physics_process" /\ last.polled /\ ~last.shimmying
    /\ IsSome(shimmy_dest) /\ on_surface
    /\ IsSome(length_of_jump_press_ms)

(***************************************************************************)
(* C33: on_ceiling and the last collision's normal                         *)
(***************************************************************************)
\* y > 0.5 and |x| <= 0.5, for the unit vector along n
IsCeilingNormal(n) ==
    GtHalf(n[2], n) /\ ~GtHalf(n[1], n) /\ ~GtHalf(-n[1], n)

\* The tick handled a collision and ends on a surface.  on_ceiling and the
\* last collision stay as they are in every step that handles no collision
\* and leaves the player on its surface.
LandedThisTick ==
    /\ last.op = "physics_process"
    /\ IsSome(last.landed)
    /\ on_surface

\* C33: whenever on_surface is true at the end of a tick, on_ceiling is
\* true exactly when the normal of the player's most recent collision was a
\* ceiling normal; a later collision with a floor or wall normal leaves
\* on_ceiling false.
C33_CeilingFollowsLastCollision ==
    LandedThisTick => (on_ceiling <=> IsCeilingNormal(Get(last.landed).normal))

\* The player was on a ceiling, collided with a wall or floor normal, and is
\* still on_ceiling.
C33_CeilingKeptAfterOtherLanding ==
    /\ LandedThisTick
    /\ Get(last.landed).old_on_ceiling
    /\ ~IsCeilingNormal(Get(last.landed).normal)
    /\ on_ceiling

(***************************************************************************)
(* C34: the orientation match covers every landing normal                  *)
(***************************************************************************)
\* C34: for every unit-length landing normal, the selected surface's or the
\* engine's raw one, one of x > 0.5, x < -0.5, y > 0.5, y < -0.5 applies:
\* the surprise-normal branch is not reached.
C34_NoSurpriseNormal ==
    last.op = "orient" => last.result.arm # "surprise"

\* A diagonal normal, the furthest from both axes, takes the first arm.
C34_DiagonalNormalFacesRight ==
    /\ last.op = "orient"
    /\ last.args.normal = <<1, 1>>
    /\ last.result.arm = "right"
    /\ last.result.oriented.direction = Right

(***************************************************************************)
(* C35: a jump takes a press and a release                                 *)
(***************************************************************************)
\* After a call: a press is registered and not yet released.
PressInProgress == IsSome(last.args.held) /\ ~IsSome(last.result)

\* C35: handle_input returns a strength only on a call in which the jump is
\* not pressed and after an earlier call registered a press; the call that
\* registers the press returns None; returning a strength clears the press
\* state; the jump meter is visible after a call exactly when a press is in
\* progress.
C35_JumpNeedsPressThenRelease ==
    last.op = "handle_input" =>
      /\ IsSome(last.result) =>
           /\ ~last.args.jump_pressed
           /\ IsSome(last.args.held) /\ Get(last.args.held) > 0
           /\ length_of_jump_press_ms = None
      /\ last.args.held = Some(0) => last.result = None
      /\ IsSome(length_of_jump_press_ms) <=> PressInProgress
      /\ jump_meter.visible <=> PressInProgress

\* A press was registered by one call and released in the next: a jump
\* after two calls.
C35_JumpOnSecondCall ==
    /\ last.op = "handle_input"
    /\ IsSome(last.result)
    /\ IsSome(last.args.held) /\ Get(last.args.held) \in HandlerDeltas
    /\ ~jump_meter.visible

(***************************************************************************)
(* C36: a player in the eat area is eaten                                  *)
(***************************************************************************)
\* The eat area's body_entered signal for b has just been handled.
EnteredEatArea(b) ==
    /\ last.op = "on_player_entered_eat_area"
    /\ last.args.body = b

\* The alligator was about to close its jaw, or closing it, when the signal
\* came: the handler ignores the signal.
JawWasBusy ==
    \/ last.args.before.name = "ClosingJaw"
    \/ /\ last.args.before.name = "OpeningJaw"
       /\ last.args.before.sub_state = "SwitchToClose"

\* A physics tick emitted player_eaten for b.
EatenNow(b) == last.op = "physics_process" /\ last.result = Some(b)

\* Another enter or exit signal has been handled since b entered the eat
\* area.
FurtherSignal(b) ==
    /\ last.op \in EnteredHandlers \cup
                   {"on_player_exited_focus_area",
                    "on_player_exited_open_jaw_area",
                    "on_player_exited_eat_area"}
    /\ ~EnteredEatArea(b)

\* player_eaten comes from a tick in ClosingJaw that brings the rotation to
\* 0, carries that state's player, and leaves the alligator Idle.
EatenOnlyWhenJawCloses ==
    (last.op = "physics_process" /\ IsSome(last.result)) =>
      /\ last.args.before.name = "ClosingJaw"
      /\ last.result = Some(last.args.before.player)
      /\ alligator.jaw = 0
      /\ alligator.state = Idle
      /\ ~bodies[last.args.before.player].in_tree

=============================================================================
